---- MODULE Spec2Model ----
(***************************************************************************)
(* A model of the ShoesBotTelegram shop bot: the Order Service, the        *)
(* PromoCode record, the rate limiter, the seeding routine and the chat    *)
(* handlers of the order flow and of the admin panel.                      *)
(*                                                                         *)
(* Money is kept in minor units (kopiykas, 1/100 UAH): the Python code     *)
(* holds floats with two decimals, and round(x, 2) is modelled as rounding *)
(* to the nearest minor unit.  A nullable integer column holds Null when   *)
(* it is NULL, a nullable string holds None.                               *)
(***************************************************************************)
EXTENDS Integers, Sequences, FiniteSets, TLC

VARIABLES
    now,          \* the wall clock, in seconds
    promo_codes,  \* table promo_codes: set of PromoCode rows
    orders,       \* table orders: set of Order rows
    order_items,  \* table order_items: set of OrderItem rows
    result,       \* the last service call: its arguments and what it returned
    applied,      \* history: per promo code, the orders created with its discount applied
    rl_now,       \* time.time(), in seconds
    rl_cfg,       \* RateLimiter: max_requests, window_seconds, ban_duration; the accounts followed
    requests,     \* RateLimiter.requests: account -> list of timestamps
    bans,         \* RateLimiter.bans: account -> ban_until
    rl_log,       \* history: per account, what the decorator did with its requests
    rl_last,      \* history: the last call of the decorator
    catalog,      \* table items: set of Item rows
    users,        \* table users: set of User rows
    feedback,     \* table feedback: set of Feedback rows
    profiles,     \* Telegram: account -> the username and names its updates carry
    user_states,  \* handlers/orders.py user_states: account -> order conversation state
    next_step,    \* the next-step handlers armed per chat: chat -> list of handler names
    admin_states  \* handlers/admin.py admin_states: account -> admin conversation state

shopVars == <<now, promo_codes, orders, order_items, result, applied>>
rlVars == <<rl_now, rl_cfg, requests, bans, rl_log, rl_last>>
botVars == <<catalog, users, feedback, profiles, user_states, next_step, admin_states>>
vars == <<shopVars, rlVars, botVars>>

----------------------------------------------------------------------------
(* Values *)

None == "<None>"
Null == -1

DELIVERY_PRICE == 10000

\* bounds of the model
DAY == 86400
MaxSeconds == 1
MaxDays == 1
MaxOrders == 2
MaxPrevUses == 1
MaxTime == 330
MaxSmallRequests == 2
MaxSmallTime == 120
MaxItemId == 26
MaxArmed == 2
MaxBotOrders == 1
MaxFeedback == 2

----------------------------------------------------------------------------
(* Helpers *)

RECURSIVE SumSeq(_)
SumSeq(s) == IF s = <<>> THEN 0 ELSE Head(s) + SumSeq(Tail(s))

MaxOf(S) == CHOOSE x \in S : \A y \in S : y <= x

\* a dict as a function; k in d is k \in DOMAIN d
Put(d, k, v) == [x \in DOMAIN d \cup {k} |-> IF x = k THEN v ELSE d[x]]
Del(d, k) == [x \in DOMAIN d \ {k} |-> d[x]]
EmptyDict == [x \in {} |-> 0]

\* primary key of the next inserted row (SQLite rowid: largest id + 1)
NextId(table) == IF table = {} THEN 1 ELSE MaxOf({r.id : r \in table}) + 1

\* str.upper() on the code strings of the model
Upper(s) ==
    CASE s = "save10" -> "SAVE10"
      [] s = "Save10" -> "SAVE10"
      [] s = "half50" -> "HALF50"
      [] s = "nope"   -> "NOPE"
      [] s = "/add_item"  -> "/ADD_ITEM"
      [] s = "/promo_add" -> "/PROMO_ADD"
      [] s = "boot-7" -> "BOOT-7"
      [] OTHER        -> s

\* round(x, 2) of the amount n/100 minor units: the nearest minor unit; an
\* exact half is decided by the binary value of the float and falls on
\* either side.
Round2(n) ==
    LET q == n \div 100
        r == n % 100
    IN  IF r < 50 THEN {q}
        ELSE IF r > 50 THEN {q + 1}
        ELSE {q, q + 1}

----------------------------------------------------------------------------
(* models/schemas.py: PromoCode *)

PromoRow(id, code, pct, until, limit, count, active) ==
    [id |-> id, code |-> code, discount_percent |-> pct, valid_until |-> until,
     usage_limit |-> limit, usage_count |-> count, is_active |-> active]

\* Python truth value of a nullable integer
Truthy(n) == n # Null /\ n # 0

is_valid(promo, t) ==
    IF ~promo.is_active THEN FALSE
    ELSE IF promo.valid_until # Null /\ t > promo.valid_until THEN FALSE
    ELSE IF Truthy(promo.usage_limit) /\ promo.usage_count >= promo.usage_limit THEN FALSE
    ELSE TRUE

\* db.query(PromoCode).filter(PromoCode.code == code).first()
PromoByCode(table, code) == {p \in table : p.code = code}

----------------------------------------------------------------------------
(* services/order_service.py *)

\* the order number is the clock reading formatted to the second
generate_order_number(t) == t

\* the set of results calculate_order_total can return (more than one only
\* when a component is an exact half of a minor unit)
calculate_order_total(items, delivery_method, promo_code, table, t) ==
    LET subtotal == SumSeq([i \in 1..Len(items) |-> items[i].price * items[i].quantity])
        delivery_cost == IF delivery_method = "delivery" THEN DELIVERY_PRICE ELSE 0
        found == IF promo_code # None /\ promo_code # ""
                 THEN PromoByCode(table, Upper(promo_code)) ELSE {}
        \* discount in 1/100 of a minor unit
        discount100 == IF \E p \in found : is_valid(p, t)
                       THEN subtotal * (CHOOSE p \in found : TRUE).discount_percent
                       ELSE 0
        total100 == (subtotal + delivery_cost) * 100 - discount100
    IN  { [subtotal |-> subtotal, delivery |-> delivery_cost, discount |-> d, total |-> tt] :
            d \in Round2(discount100), tt \in Round2(total100) }

\* what create_order leaves in the database, for each result of the
\* calculation; the flush of the Order row fails on the unique order_number
\* and nothing is committed.
OrderNumberTaken(t) == \E o \in orders : o.order_number = generate_order_number(t)

NewOrder(user_id, totals, delivery_method, address, phone, promo_code, t) ==
    [id |-> NextId(orders), order_number |-> generate_order_number(t),
     user_id |-> user_id, total |-> totals.total, status |-> "pending",
     delivery_method |-> delivery_method, address |-> address, phone |-> phone,
     promo_code |-> promo_code, discount |-> totals.discount]

NewOrderItems(order_id, items_data) ==
    { [id |-> NextId(order_items) + i - 1, order_id |-> order_id,
       item_id |-> items_data[i].item_id, size |-> items_data[i].size,
       quantity |-> items_data[i].quantity, price |-> items_data[i].price] :
         i \in 1..Len(items_data) }

\* promo.usage_count += 1 on the row the code resolves to
UsePromo(table, promo_code) ==
    IF promo_code # None /\ promo_code # ""
    THEN { IF p.code = Upper(promo_code)
           THEN [p EXCEPT !.usage_count = @ + 1] ELSE p : p \in table }
    ELSE table

NoResult ==
    [op |-> "none", ok |-> TRUE, items |-> <<>>, delivery_method |-> None,
     promo_code |-> None, totals |-> [subtotal |-> 0, delivery |-> 0, discount |-> 0, total |-> 0],
     order_id |-> Null, added |-> <<0, 0>>, at |-> 0, text |-> None, handlers |-> <<>>,
     raised |-> FALSE, reply |-> None, value |-> None, from_user |-> Null,
     admins |-> <<>>, sends |-> <<>>, announced |-> FALSE,
     buttons |-> <<>>, tapped |-> 0, accepted |-> <<>>,
     parsed |-> [raised |-> FALSE, args |-> <<>>], session |-> {}]

----------------------------------------------------------------------------
(* utils/rate_limiter.py: RateLimiter *)

RECURSIVE Keep(_, _)
\* [ts for ts in timestamps if ts > window_start]
Keep(timestamps, window_start) ==
    IF timestamps = <<>> THEN <<>>
    ELSE IF Head(timestamps) > window_start
         THEN <<Head(timestamps)>> \o Keep(Tail(timestamps), window_start)
         ELSE Keep(Tail(timestamps), window_start)

BanActive_inverted(current_time, ban_until) == current_time > ban_until

\* the ban of is_allowed is still running at current_time
BanActive(current_time, ban_until) == current_time < ban_until

LimitReached_late(request_count, max_requests) == request_count > max_requests

\* the request count of is_allowed has reached the limit
LimitReached(request_count, max_requests) == request_count >= max_requests

is_allowed_extending(reqs, bs, cfg, user_id, current_time) ==
    IF user_id \in DOMAIN bs /\ BanActive(current_time, bs[user_id])
    THEN [allowed |-> FALSE, requests |-> reqs,
          bans |-> Put(bs, user_id, current_time + cfg.ban_duration)]
    ELSE LET bs1 == Del(bs, user_id)
             window_start == current_time - cfg.window_seconds
             reqs1 == IF user_id \in DOMAIN reqs
                      THEN [reqs EXCEPT ![user_id] = Keep(@, window_start)]
                      ELSE reqs
             request_count == IF user_id \in DOMAIN reqs1 THEN Len(reqs1[user_id]) ELSE 0
         IN  IF LimitReached(request_count, cfg.max_requests)
             THEN [allowed |-> FALSE, requests |-> reqs1,
                   bans |-> Put(bs1, user_id, current_time + cfg.ban_duration)]
             ELSE [allowed |-> TRUE, requests |-> reqs1, bans |-> bs1]

\* is_allowed(user_id) at current_time: the answer and the dicts it leaves
is_allowed(reqs, bs, cfg, user_id, current_time) ==
    IF user_id \in DOMAIN bs /\ BanActive(current_time, bs[user_id])
    THEN [allowed |-> FALSE, requests |-> reqs, bans |-> bs]
    ELSE LET bs1 == Del(bs, user_id)
             window_start == current_time - cfg.window_seconds
             reqs1 == IF user_id \in DOMAIN reqs
                      THEN [reqs EXCEPT ![user_id] = Keep(@, window_start)]
                      ELSE reqs
             request_count == IF user_id \in DOMAIN reqs1 THEN Len(reqs1[user_id]) ELSE 0
         IN  IF LimitReached(request_count, cfg.max_requests)
             THEN [allowed |-> FALSE, requests |-> reqs1,
                   bans |-> Put(bs1, user_id, current_time + cfg.ban_duration)]
             ELSE [allowed |-> TRUE, requests |-> reqs1, bans |-> bs1]

\* record_request(user_id) at current_time
record_request(reqs, cfg, user_id, current_time) ==
    LET old == IF user_id \in DOMAIN reqs THEN reqs[user_id] ELSE <<>>
    IN  Put(reqs, user_id, Keep(Append(old, current_time), current_time - cfg.window_seconds))

\* the global instance: RateLimiter(), followed for one account until MaxTime
DefaultLimiter ==
    [max_requests |-> 20, window_seconds |-> 60, ban_duration |-> 300,
     accounts |-> {"u1"}, horizon |-> MaxTime]

\* a limiter with a small limit, followed for two accounts
SmallLimiter ==
    [max_requests |-> MaxSmallRequests, window_seconds |-> 60, ban_duration |-> 300,
     accounts |-> {"u1", "u2"}, horizon |-> MaxSmallTime]

\* history of an account: the number of its requests inside the window of its
\* first one (counted up to two past the limit), the time of the first one,
\* the time its running ban was imposed, the times of the handler invocations
\* let through in the current window
NoLog == [hits |-> 0, first |-> 0, ban_at |-> Null, passed |-> <<>>]
\* the last call: its account, its answer, the time is_allowed read, and the
\* end of the ban it found in bans for the account, if any
NoCall == [user |-> None, allowed |-> TRUE, at |-> 0, found |-> Null]

RateLimiterInit(cfg) ==
    /\ rl_now = 0
    /\ rl_cfg = cfg
    /\ requests = EmptyDict
    /\ bans = EmptyDict
    /\ rl_log = [u \in cfg.accounts |-> NoLog]
    /\ rl_last = NoCall

\* time passes between two updates
RlTick(d) ==
    /\ rl_now + d <= rl_cfg.horizon
    /\ rl_now' = rl_now + d
    /\ UNCHANGED <<rl_cfg, requests, bans, rl_log, rl_last, shopVars, botVars>>

\* rate_limit_decorator.wrapper: is_allowed, then on success record_request
\* and the handler; the clock is read once by each method, dt apart
Wrapper(user_id, dt) ==
    /\ rl_now + dt <= rl_cfg.horizon
    /\ LET t1 == rl_now
           t2 == rl_now + dt
           r  == is_allowed(requests, bans, rl_cfg, user_id, t1)
           log == rl_log[user_id]
           found == IF user_id \in DOMAIN bans THEN bans[user_id] ELSE Null
           \* the account's first requests are followed while they stay inside
           \* the window of the very first one, its last ban while it lasts
           inFirst == log.hits = 0 \/ t1 - log.first < rl_cfg.window_seconds
           log1 == [log EXCEPT
                      !.hits = IF inFirst /\ @ < rl_cfg.max_requests + 2 THEN @ + 1
                               ELSE rl_cfg.max_requests + 2,
                      !.first = IF log.hits = 0 THEN t1 ELSE IF inFirst THEN @ ELSE 0,
                      !.ban_at = IF @ # Null /\ t1 >= @ + rl_cfg.ban_duration THEN Null ELSE @]
       IN  IF ~r.allowed
           THEN /\ requests' = r.requests
                /\ bans' = r.bans
                /\ rl_now' = t1
                /\ rl_log' = [rl_log EXCEPT ![user_id] =
                       [log1 EXCEPT !.ban_at = IF r.bans # bans THEN t1 ELSE @]]
                /\ rl_last' = [user |-> user_id, allowed |-> FALSE, at |-> t1, found |-> found]
           ELSE /\ requests' = record_request(r.requests, rl_cfg, user_id, t2)
                /\ bans' = r.bans
                /\ rl_now' = t2
                /\ rl_log' = [rl_log EXCEPT ![user_id] =
                       [log1 EXCEPT !.passed = Keep(Append(@, t2), t2 - rl_cfg.window_seconds)]]
                /\ rl_last' = [user |-> user_id, allowed |-> TRUE, at |-> t1, found |-> found]
    /\ UNCHANGED <<rl_cfg, shopVars, botVars>>

TimeSteps == {30, 300}
InnerDelays == {0, 30}

----------------------------------------------------------------------------
(* Inputs of the service calls *)

LineA == [item_id |-> 1, size |-> "42", quantity |-> 1, price |-> 1031]
LineB == [item_id |-> 2, size |-> "38", quantity |-> 2, price |-> 2000]
ItemLists == { <<>>, <<LineA>>, <<LineB, LineA>> }
DeliveryMethods == {"pickup", "delivery"}
CodeInputs == {None, "", "save10", "HALF50", "nope"}
UserIds == {1}

\* a validator that accepts every percentage
validate_promo_discount_any(discount) == TRUE

\* utils/validators.py: validate_promo_discount on a parsed number
validate_promo_discount(discount) == 0 < discount /\ discount <= 100

\* the promo table the shop starts with: SAVE10 in every configuration an
\* administrator or the Promo Service can have created it, HALF50 unlimited
InitPromoTables(counts) ==
    { { PromoRow(1, "SAVE10", 10, until, limit, count, active),
        PromoRow(2, "HALF50", 50, Null, Null, 0, TRUE) } :
        until \in {Null, 0}, limit \in {Null, 0, 1}, count \in counts, active \in BOOLEAN }

ZeroApplied == [c \in {"SAVE10", "HALF50", "NOPE"} |-> 0]

----------------------------------------------------------------------------
(* Actions of the Order Service *)

\* the clock advances by a second or by a day
Tick ==
    /\ \/ now % DAY < MaxSeconds /\ now' = now + 1
       \/ now \div DAY < MaxDays /\ now' = now + DAY
    /\ UNCHANGED <<promo_codes, orders, order_items, result, applied, rlVars, botVars>>

\* services/promo_service.py: create_promo_code
CreatePromoCode(code, discount_percent, valid_days, usage_limit, is_active) ==
    LET call == [NoResult EXCEPT !.op = "create_promo_code", !.promo_code = code, !.at = now]
        valid_until == IF Truthy(valid_days) THEN now + valid_days * DAY ELSE Null
        promo == PromoRow(NextId(promo_codes), Upper(code), discount_percent,
                          valid_until, usage_limit, 0, is_active)
    IN  /\ IF ~validate_promo_discount(discount_percent)
              \/ PromoByCode(promo_codes, Upper(code)) # {}
           THEN /\ result' = [call EXCEPT !.ok = FALSE]
                /\ UNCHANGED promo_codes
           ELSE /\ promo_codes' = promo_codes \cup {promo}
                /\ result' = call
        /\ UNCHANGED <<now, orders, order_items, applied, rlVars, botVars>>

CalculateOrderTotal(items, delivery_method, promo_code) ==
    /\ \E totals \in calculate_order_total(items, delivery_method, promo_code, promo_codes, now) :
          result' = [NoResult EXCEPT !.op = "calculate_order_total", !.items = items,
                       !.delivery_method = delivery_method, !.promo_code = promo_code,
                       !.totals = totals, !.at = now]
    /\ UNCHANGED <<now, promo_codes, orders, order_items, applied, rlVars, botVars>>

CreateOrder(user_id, items_data, delivery_method, address, phone, promo_code) ==
    /\ Cardinality(orders) < MaxOrders
    /\ \E totals \in calculate_order_total(items_data, delivery_method, promo_code, promo_codes, now) :
         LET order == NewOrder(user_id, totals, delivery_method, address, phone, promo_code, now)
             call  == [NoResult EXCEPT !.op = "create_order", !.items = items_data,
                         !.delivery_method = delivery_method, !.promo_code = promo_code,
                         !.totals = totals, !.at = now]
             valid == \E p \in PromoByCode(promo_codes, Upper(promo_code)) :
                         promo_code # None /\ promo_code # "" /\ is_valid(p, now)
         IN  IF OrderNumberTaken(now)
             THEN /\ result' = [call EXCEPT !.ok = FALSE]
                  /\ UNCHANGED <<promo_codes, orders, order_items, applied>>
             ELSE /\ orders' = orders \cup {order}
                  /\ order_items' = order_items \cup NewOrderItems(order.id, items_data)
                  /\ promo_codes' = UsePromo(promo_codes, promo_code)
                  /\ applied' = IF valid THEN [applied EXCEPT ![Upper(promo_code)] = @ + 1]
                                 ELSE applied
                  /\ result' = [call EXCEPT !.order_id = order.id]
    /\ UNCHANGED <<now, rlVars, botVars>>

\* the bot before any update, on an empty catalog
BotIdle ==
    /\ catalog = {}
    /\ users = {}
    /\ feedback = {}
    /\ profiles = EmptyDict
    /\ admin_states = EmptyDict
    /\ user_states = EmptyDict
    /\ next_step = EmptyDict

InitShop(tables) ==
    /\ now = 0
    /\ promo_codes \in tables
    /\ orders = {}
    /\ order_items = {}
    /\ result = NoResult
    /\ applied = ZeroApplied
    /\ RateLimiterInit(DefaultLimiter)
    /\ BotIdle

\* the shop left alone
InitShopIdle ==
    /\ now = 0
    /\ promo_codes = {}
    /\ orders = {}
    /\ order_items = {}
    /\ result = NoResult
    /\ applied = ZeroApplied
    /\ BotIdle

\* calculate_order_total as a pure function of its inputs and the promo table
InitTotal == InitShop(InitPromoTables(0..MaxPrevUses))

NextTotal ==
    \/ Tick
    \/ \E items \in ItemLists, dm \in DeliveryMethods, code \in CodeInputs :
          CalculateOrderTotal(items, dm, code)

SpecTotal == InitTotal /\ [][NextTotal]_vars

\* sequences of create_promo_code and create_order calls on an empty shop
InitOrders == InitShop({{}})

PromoInputs ==
    { [code |-> "save10", discount_percent |-> 10, valid_days |-> c[1], usage_limit |-> c[2], is_active |-> c[3]] :
        c \in { <<Null, Null, TRUE>>, <<Null, 0, TRUE>>, <<0, 1, TRUE>>,
                <<1, Null, TRUE>>, <<Null, Null, FALSE>> } }
    \cup { [code |-> "HALF50", discount_percent |-> 50, valid_days |-> Null, usage_limit |-> Null, is_active |-> TRUE],
           [code |-> "nope", discount_percent |-> 0, valid_days |-> Null, usage_limit |-> Null, is_active |-> TRUE] }

\* the create_order calls: a pickup order of one line and a delivery order
\* of two
OrderInputs ==
    { [items |-> <<LineA>>, delivery_method |-> "pickup", address |-> None],
      [items |-> <<LineB, LineA>>, delivery_method |-> "delivery", address |-> "Kyiv"] }
CreateCodeInputs == {None, "save10", "HALF50", "nope"}

NextOrders ==
    \/ Tick
    \/ \E i \in PromoInputs :
          CreatePromoCode(i.code, i.discount_percent, i.valid_days, i.usage_limit, i.is_active)
    \/ \E u \in UserIds, i \in OrderInputs, code \in CreateCodeInputs :
          CreateOrder(u, i.items, i.delivery_method, i.address, "+380501234567", code)

SpecOrders == InitOrders /\ [][NextOrders]_vars

\* requests passing through the rate limiting decorator
InitRate ==
    /\ InitShopIdle
    /\ \E cfg \in {DefaultLimiter, SmallLimiter} : RateLimiterInit(cfg)

NextRate ==
    \/ \E d \in TimeSteps : RlTick(d)
    \/ \E u \in rl_cfg.accounts, dt \in InnerDelays : Wrapper(u, dt)

SpecRate == InitRate /\ [][NextRate]_vars

----------------------------------------------------------------------------
(* scripts/seed_data.py: the seeding routine *)

ItemRow(id, sku, price, sizes, category) ==
    [id |-> id, sku |-> sku, price |-> price, sizes |-> sizes, category |-> category]

\* items_to_add: SKU, price in minor units, sizes, category
SeedItems ==
    << [sku |-> "NIKE-AIR-001", price |-> 249900, sizes |-> <<"38", "39", "40", "41", "42", "43">>, category |-> "men"],
       [sku |-> "ADIDAS-UB-002", price |-> 329900, sizes |-> <<"39", "40", "41", "42", "43", "44">>, category |-> "men"],
       [sku |-> "NIKE-AF-003", price |-> 289900, sizes |-> <<"38", "39", "40", "41", "42", "43", "44">>, category |-> "men"],
       [sku |-> "ADIDAS-ST-004", price |-> 219900, sizes |-> <<"38", "39", "40", "41", "42">>, category |-> "men"],
       [sku |-> "PUMA-RS-005", price |-> 239900, sizes |-> <<"39", "40", "41", "42", "43">>, category |-> "men"],
       [sku |-> "NEW-BALANCE-006", price |-> 199900, sizes |-> <<"38", "39", "40", "41", "42", "43">>, category |-> "men"],
       [sku |-> "REEBOK-CLASSIC-007", price |-> 189900, sizes |-> <<"39", "40", "41", "42", "43">>, category |-> "men"],
       [sku |-> "NIKE-JORDAN-008", price |-> 459900, sizes |-> <<"40", "41", "42", "43", "44">>, category |-> "men"],
       [sku |-> "PUMA-CALI-101", price |-> 189900, sizes |-> <<"35", "36", "37", "38", "39", "40">>, category |-> "women"],
       [sku |-> "NIKE-AIR-MAX-102", price |-> 269900, sizes |-> <<"36", "37", "38", "39", "40">>, category |-> "women"],
       [sku |-> "ADIDAS-SU-103", price |-> 229900, sizes |-> <<"35", "36", "37", "38", "39">>, category |-> "women"],
       [sku |-> "CONVERSE-104", price |-> 149900, sizes |-> <<"36", "37", "38", "39", "40">>, category |-> "women"],
       [sku |-> "VANS-105", price |-> 179900, sizes |-> <<"36", "37", "38", "39", "40">>, category |-> "women"],
       [sku |-> "SKECHERS-106", price |-> 159900, sizes |-> <<"35", "36", "37", "38", "39", "40">>, category |-> "women"],
       [sku |-> "NIKE-KIDS-201", price |-> 129900, sizes |-> <<"28", "29", "30", "31", "32">>, category |-> "kids"],
       [sku |-> "ADIDAS-KIDS-202", price |-> 139900, sizes |-> <<"27", "28", "29", "30", "31">>, category |-> "kids"],
       [sku |-> "PUMA-KIDS-203", price |-> 119900, sizes |-> <<"26", "27", "28", "29", "30">>, category |-> "kids"],
       [sku |-> "NIKE-KIDS-204", price |-> 99900, sizes |-> <<"25", "26", "27", "28", "29">>, category |-> "kids"],
       [sku |-> "NIKE-RUN-301", price |-> 319900, sizes |-> <<"39", "40", "41", "42", "43">>, category |-> "men"],
       [sku |-> "ASICS-GEL-302", price |-> 449900, sizes |-> <<"39", "40", "41", "42", "43", "44">>, category |-> "men"],
       [sku |-> "TIMBERLAND-401", price |-> 589900, sizes |-> <<"39", "40", "41", "42", "43">>, category |-> "men"],
       [sku |-> "DR-MARTENS-402", price |-> 499900, sizes |-> <<"38", "39", "40", "41", "42">>, category |-> "men"],
       [sku |-> "CROCS-501", price |-> 89900, sizes |-> <<"38", "39", "40", "41", "42", "43">>, category |-> "men"],
       [sku |-> "BROOKS-GHOST-601", price |-> 379900, sizes |-> <<"39", "40", "41", "42", "43", "44">>, category |-> "men"],
       [sku |-> "HOKA-602", price |-> 419900, sizes |-> <<"39", "40", "41", "42", "43">>, category |-> "men"] >>

SeedPromos ==
    << [code |-> "WELCOME10", discount_percent |-> 10, valid_days |-> 30, usage_limit |-> 100, is_active |-> TRUE],
       [code |-> "SUMMER25", discount_percent |-> 25, valid_days |-> 60, usage_limit |-> 50, is_active |-> TRUE],
       [code |-> "FIRSTORDER", discount_percent |-> 15, valid_days |-> 90, usage_limit |-> Null, is_active |-> TRUE],
       [code |-> "NEWYEAR2024", discount_percent |-> 20, valid_days |-> 45, usage_limit |-> 200, is_active |-> TRUE],
       [code |-> "BLACKFRIDAY", discount_percent |-> 30, valid_days |-> 15, usage_limit |-> 100, is_active |-> TRUE],
       [code |-> "VIP15", discount_percent |-> 15, valid_days |-> Null, usage_limit |-> Null, is_active |-> TRUE],
       [code |-> "LOYALTY20", discount_percent |-> 20, valid_days |-> 180, usage_limit |-> 500, is_active |-> TRUE],
       [code |-> "FREESHIP", discount_percent |-> 0, valid_days |-> 30, usage_limit |-> 200, is_active |-> TRUE] >>

Already_never(key, existing) == FALSE

\* item_data['sku'] in existing_skus, promo_data['code'] in existing_codes
Already(key, existing) == key \in existing

\* no two rows of the table carry the same value of the unique column
UniqueSku(table) == Cardinality({i.sku : i \in table}) = Cardinality(table)
UniqueCode(table) == Cardinality({p.code : p \in table}) = Cardinality(table)

\* seed_extensive_data(db) at time t: the counts it returns and the tables
\* it leaves; the commit raises when it breaks a unique column, and nothing
\* is stored
seed_extensive_data(item_table, promo_table, t) ==
    LET existing_skus == {i.sku : i \in item_table}
        existing_codes == {p.code : p \in promo_table}
        new_items == SelectSeq(SeedItems, LAMBDA d : ~Already(d.sku, existing_skus))
        new_promos == SelectSeq(SeedPromos, LAMBDA d : ~Already(d.code, existing_codes))
        items_added == Len(new_items)
        promos_added == Len(new_promos)
        item_rows == { ItemRow(NextId(item_table) + k - 1, new_items[k].sku, new_items[k].price,
                               new_items[k].sizes, new_items[k].category) : k \in 1..items_added }
        promo_rows == { PromoRow(NextId(promo_table) + k - 1, new_promos[k].code,
                                 new_promos[k].discount_percent,
                                 IF new_promos[k].valid_days = Null THEN Null
                                 ELSE t + new_promos[k].valid_days * DAY,
                                 new_promos[k].usage_limit, 0, new_promos[k].is_active) :
                          k \in 1..promos_added }
        raised == (items_added > 0 \/ promos_added > 0)
                  /\ ~(UniqueSku(item_table \cup item_rows) /\ UniqueCode(promo_table \cup promo_rows))
    IN  [ok |-> ~raised, items_added |-> items_added, promos_added |-> promos_added,
         items |-> IF raised THEN item_table ELSE item_table \cup item_rows,
         promo_codes |-> IF raised THEN promo_table ELSE promo_table \cup promo_rows]

\* init_database.py main: seed_extensive_data on the current database
SeedExtensiveData ==
    LET r == seed_extensive_data(catalog, promo_codes, now)
    IN  /\ catalog' = r.items
        /\ promo_codes' = r.promo_codes
        /\ result' = [NoResult EXCEPT !.op = "seed_extensive_data", !.ok = r.ok,
                        !.added = <<r.items_added, r.promos_added>>, !.at = now]
        /\ UNCHANGED <<now, orders, order_items, applied, rlVars,
                       users, feedback, profiles, admin_states, user_states, next_step>>

\* bot.py seed_database_if_empty, at every start of the bot: both branches
\* of the item count test run seed_extensive_data
SeedDatabaseIfEmpty ==
    LET item_count == Cardinality(catalog)
        r == seed_extensive_data(catalog, promo_codes, now)
    IN  /\ catalog' = r.items
        /\ promo_codes' = r.promo_codes
        /\ result' = [NoResult EXCEPT
                        !.op = IF item_count < 5 THEN "seed_database_if_empty:seeding"
                               ELSE "seed_database_if_empty:missing",
                        !.ok = r.ok, !.added = <<r.items_added, r.promos_added>>, !.at = now]
        /\ UNCHANGED <<now, orders, order_items, applied, rlVars,
                       users, feedback, profiles, admin_states, user_states, next_step>>

----------------------------------------------------------------------------
(* handlers/admin.py: removal of an item *)

\* Config.ADMIN_IDS: the accounts the environment lists as administrators
ADMIN_IDS == {100, 101}
\* the administrator that writes to the bot where one is enough
ActingAdmins == {100}

is_admin_any(user_id) == TRUE

\* config.py: Config.is_admin
is_admin(user_id) == user_id \in ADMIN_IDS

\* confirm_remove_item on the callback remove_item_yes:<item_id>.  db.delete
\* of an item sets item_id of its order lines to NULL; the column is NOT
\* NULL, so the commit raises and the item stays.
ConfirmRemoveItem(from_user, item_id) ==
    LET found == {i \in catalog : i.id = item_id}
        referenced == \E oi \in order_items : oi.item_id = item_id
    IN  /\ catalog' = IF found # {} /\ ~referenced THEN catalog \ found ELSE catalog
        /\ UNCHANGED <<users, feedback, profiles, admin_states, user_states, next_step, shopVars, rlVars>>

----------------------------------------------------------------------------
(* The database under seeding, promo creation and item removal *)

InitSeed == InitShopIdle /\ RateLimiterInit(DefaultLimiter)

SeedPromoInputs ==
    { [code |-> "VIP15", discount_percent |-> 50, valid_days |-> Null, usage_limit |-> Null] }

RemoveIds == {1, 25, 26}

\* a day passes between two starts
NextDay ==
    /\ now \div DAY < MaxDays
    /\ now' = now + DAY
    /\ UNCHANGED <<promo_codes, orders, order_items, result, applied, rlVars, botVars>>

NextSeed ==
    \/ NextDay
    \/ SeedExtensiveData
    \/ SeedDatabaseIfEmpty
    \/ \E i \in SeedPromoInputs :
          CreatePromoCode(i.code, i.discount_percent, i.valid_days, i.usage_limit, TRUE)
    \/ \E id \in RemoveIds : NextId(catalog) <= MaxItemId /\ ConfirmRemoveItem(100, id)

SpecSeed == InitSeed /\ [][NextSeed]_vars

----------------------------------------------------------------------------
(* Message texts and utils/validators.py *)

Texts == {" 2 ", "+380501234", "/start"}

\* str.strip() on the texts of the model
Strip(text) ==
    CASE text = " 2 "  -> "2"
      [] text = " 39"  -> "39"
      [] text = "46 "  -> "46"
      [] text = " "    -> ""
      [] OTHER         -> text

\* the numeral a stripped text spells, an optional '+' and then digits only:
\* the number of its digits and its value; no digits when it is not one
Numeral(text) ==
    CASE text = "0"          -> [digits |-> 1, value |-> 0]
      [] text = "1"          -> [digits |-> 1, value |-> 1]
      [] text = "2"          -> [digits |-> 1, value |-> 2]
      [] text = "99"         -> [digits |-> 2, value |-> 99]
      [] text = "100"        -> [digits |-> 3, value |-> 100]
      [] text = "+380501234" -> [digits |-> 9, value |-> 380501234]
      [] OTHER               -> [digits |-> 0, value |-> Null]

\* int() of a stripped text: whether it parses, and the integer it gives;
\* a numeral parses, and so does a numeral behind a minus sign
IntOf(text) ==
    IF Numeral(text).digits > 0 THEN [ok |-> TRUE, value |-> Numeral(text).value]
    ELSE CASE text = "-5" -> [ok |-> TRUE, value |-> -5]
           [] OTHER       -> [ok |-> FALSE, value |-> 0]

validate_quantity_wide(quantity_str) ==
    LET n == IntOf(Strip(quantity_str))
    IN  IF n.ok /\ 0 <= n.value /\ n.value <= 100 THEN n.value ELSE Null

\* validate_quantity: int(quantity_str.strip()) when it is within 1..99;
\* a text that does not parse and a missing text give nothing
validate_quantity(quantity_str) ==
    LET n == IntOf(Strip(quantity_str))
    IN  IF n.ok /\ 1 <= n.value /\ n.value <= 99 THEN n.value ELSE Null

\* a call of validate_quantity
ValidateQuantity(quantity_str) ==
    /\ result' = [NoResult EXCEPT !.op = "validate_quantity", !.text = quantity_str,
                                  !.value = validate_quantity(quantity_str)]
    /\ UNCHANGED <<now, promo_codes, orders, order_items, applied, rlVars, botVars>>

\* validate_phone: PHONE_PATTERN ^\+?\d{9,15}$ on phone.strip()
validate_phone(phone) ==
    LET n == Numeral(Strip(phone))
    IN  9 <= n.digits /\ n.digits <= 15

\* Config.AVAILABLE_SIZES
AVAILABLE_SIZES == {"35", "36", "37", "38", "39", "40", "41", "42", "43", "44", "45", "46"}

validate_sizes_partial(tokens) ==
    LET valid_sizes == SelectSeq([i \in 1..Len(tokens) |-> Strip(tokens[i])],
                                 LAMBDA x : x \in AVAILABLE_SIZES)
    IN  IF valid_sizes # <<>> THEN valid_sizes ELSE None

\* validate_sizes on tokens = sizes_str.split(","): a list of at least one
\* token, the empty string giving the one token ""
validate_sizes(tokens) ==
    LET sizes == [i \in 1..Len(tokens) |-> Strip(tokens[i])]
        valid_sizes == SelectSeq(sizes, LAMBDA x : x \in AVAILABLE_SIZES)
    IN  IF valid_sizes # <<>> /\ Len(valid_sizes) = Len(sizes) THEN valid_sizes ELSE None

\* a call of validate_sizes
ValidateSizes(tokens) ==
    /\ result' = [NoResult EXCEPT !.op = "validate_sizes", !.items = tokens,
                                  !.value = validate_sizes(tokens)]
    /\ UNCHANGED <<now, promo_codes, orders, order_items, applied, rlVars, botVars>>

MaxTokens == 3
RawTokens == {"38", " 39", "46 ", "47", "", " "}

\* sizes_str.split(",") of the strings given to validate_sizes
SizeInputsSplit == UNION { [1..n -> RawTokens] : n \in 1..MaxTokens }

InitSizes == InitShopIdle /\ RateLimiterInit(DefaultLimiter)

NextSizes == \E tokens \in SizeInputsSplit : ValidateSizes(tokens)

SpecSizes == InitSizes /\ [][NextSizes]_vars

----------------------------------------------------------------------------
(* handlers/start.py and handlers/orders.py *)

\* the keys of a conversation state; a key the dict does not hold is Null or None
NoState ==
    [item_id |-> Null, size |-> None, step |-> None, price |-> Null,
     quantity |-> Null, delivery_method |-> None, address |-> None, phone |-> None]

ItemById(item_id) == {i \in catalog : i.id = item_id}
UserByTgId(tg_id) == {u \in users : u.tg_id = tg_id}

\* bot.register_next_step_handler(message, handler): appended to the list of
\* the chat; a private chat has the id of its account
Arm(ns, chat_id, handler) ==
    Put(ns, chat_id, Append(IF chat_id \in DOMAIN ns THEN ns[chat_id] ELSE <<>>, handler))

Armed(chat_id) == IF chat_id \in DOMAIN next_step THEN next_step[chat_id] ELSE <<>>

\* User(tg_id, username, first_name, last_name) of the sender of an update
NewUser(table, from_user) ==
    [id |-> NextId(table), tg_id |-> from_user,
     username |-> profiles[from_user].username,
     first_name |-> profiles[from_user].first_name,
     last_name |-> profiles[from_user].last_name]

get_or_create_user_again(from_user) == users \cup {NewUser(users, from_user)}

\* get_or_create_user: the row of the sender is added, or brought up to the
\* username and names of the message
get_or_create_user(from_user) ==
    IF UserByTgId(from_user) = {}
    THEN users \cup {NewUser(users, from_user)}
    ELSE { IF u.tg_id = from_user
           THEN [u EXCEPT !.username = profiles[from_user].username,
                          !.first_name = profiles[from_user].first_name,
                          !.last_name = profiles[from_user].last_name]
           ELSE u : u \in users }

\* the handlers of messages, from what an update finds to what it leaves:
\* st = [us, ns, users, feedback] are the conversation states, the armed
\* handlers and the two tables; st.api is false when the next call of the
\* Bot API raises (the calls after it succeed), st.raised becomes true when
\* an exception leaves a handler, st.reply is the last message sent

\* the quantity goes to whichever account waits for one
process_quantity_waiting(st, user_id, text) ==
    LET waiting == {k \in DOMAIN st.us : st.us[k].step = "select_quantity"}
        quantity == validate_quantity(text)
    IN  IF waiting = {} \/ ~Truthy(quantity) THEN st
        ELSE LET u == CHOOSE k \in waiting : TRUE
             IN  [st EXCEPT !.us[u].quantity = quantity, !.us[u].step = "select_delivery"]

process_quantity(st, user_id, text) ==
    IF user_id \notin DOMAIN st.us THEN st
    ELSE LET quantity == validate_quantity(text)
         IN  IF ~Truthy(quantity)
             THEN [st EXCEPT !.ns = Arm(@, user_id, "process_quantity")]
             ELSE [st EXCEPT !.us[user_id].quantity = quantity,
                             !.us[user_id].step = "select_delivery"]

process_address(st, user_id, text) ==
    IF user_id \notin DOMAIN st.us THEN st
    ELSE [st EXCEPT !.us[user_id].address = Strip(text),
                    !.us[user_id].step = "enter_phone",
                    !.ns = Arm(@, user_id, "process_phone")]

process_phone_unarmed(st, user_id, text) ==
    IF user_id \notin DOMAIN st.us \/ ~validate_phone(Strip(text)) THEN st
    ELSE [st EXCEPT !.us[user_id].phone = Strip(text),
                    !.us[user_id].step = "confirm_order"]

process_phone(st, user_id, text) ==
    IF user_id \notin DOMAIN st.us THEN st
    ELSE LET phone == Strip(text)
         IN  IF ~validate_phone(phone)
             THEN [st EXCEPT !.ns = Arm(@, user_id, "process_phone")]
             ELSE [st EXCEPT !.us[user_id].phone = phone,
                             !.us[user_id].step = "confirm_order"]

\* len() of the texts of the model
StrLen(text) ==
    CASE text = "2"           -> 1
      [] text = "nice"        -> 4
      [] text = "B"           -> 1
      [] text = "Boots"       -> 5
      [] text = "/start"      -> 6
      [] text = "/catalog"    -> 8
      [] text = "/feedback"   -> 9
      [] text = "+380501234"  -> 10
      [] text = "great shoes" -> 11
      [] OTHER                -> 0

\* handlers/feedback.py process_feedback; a message without text has
\* message.text None, and None.strip() raises before the try block
process_feedback(st, user_id, text) ==
    IF text = None THEN [st EXCEPT !.raised = TRUE]
    ELSE IF StrLen(Strip(text)) < 5
    THEN IF st.api
         THEN [st EXCEPT !.reply = "FEEDBACK_TOO_SHORT",
                         !.ns = Arm(@, user_id, "process_feedback")]
         ELSE [st EXCEPT !.raised = TRUE, !.api = TRUE]
    ELSE LET found == {u \in st.users : u.tg_id = user_id}
             table == IF found = {} THEN st.users \cup {NewUser(st.users, user_id)}
                      ELSE st.users
             user == CHOOSE u \in table : u.tg_id = user_id
             row == [id |-> NextId(st.feedback), user_id |-> user.id, text |-> Strip(text)]
             stored == [st EXCEPT !.users = table, !.feedback = @ \cup {row}]
         IN  IF st.api THEN [stored EXCEPT !.reply = "FEEDBACK_THANKS"]
             ELSE [stored EXCEPT !.reply = "ERROR_GENERAL", !.api = TRUE]

RunHandler(handler, st, user_id, text) ==
    CASE handler = "process_quantity" -> process_quantity(st, user_id, text)
      [] handler = "process_address"  -> process_address(st, user_id, text)
      [] handler = "process_phone"    -> process_phone(st, user_id, text)
      [] handler = "process_feedback" -> process_feedback(st, user_id, text)

RECURSIVE RunHandlers(_, _, _, _)
\* every handler armed for the chat runs on the message, in the order armed
RunHandlers(handlers, st, user_id, text) ==
    IF handlers = <<>> THEN st
    ELSE RunHandlers(Tail(handlers), RunHandler(Head(handlers), st, user_id, text), user_id, text)

\* handlers/start.py handle_start: the user is stored and the welcome sent,
\* a second time from the except block when the first send raises
handle_start(st, user_id) ==
    [st EXCEPT !.users = get_or_create_user(user_id), !.reply = "START", !.api = TRUE]

\* handlers/feedback.py start_feedback
start_feedback(st, user_id) ==
    IF st.api
    THEN [st EXCEPT !.reply = "FEEDBACK_PROMPT", !.ns = Arm(@, user_id, "process_feedback")]
    ELSE [st EXCEPT !.raised = TRUE, !.api = TRUE]

\* handlers/catalog.py show_catalog: try and finally, no except
show_catalog(st) ==
    IF st.api
    THEN [st EXCEPT !.reply = IF catalog = {} THEN "CATALOG_EMPTY" ELSE "CATALOG_HEADER"]
    ELSE [st EXCEPT !.raised = TRUE, !.api = TRUE]

\* the command handlers
RunCommand(st, user_id, text) ==
    CASE text = "/start"    -> handle_start(st, user_id)
      [] text = "/feedback" -> start_feedback(st, user_id)
      [] text = "/catalog"  -> show_catalog(st)
      [] OTHER              -> st

\* a message: the handlers armed for the chat are taken off and run on it;
\* with none armed the message goes to the command handlers
Handled(from_user, text, api_ok) ==
    LET st == [us |-> user_states, ns |-> next_step, users |-> users, feedback |-> feedback,
               api |-> api_ok, raised |-> FALSE, reply |-> None]
    IN  IF Armed(from_user) # <<>>
        THEN RunHandlers(Armed(from_user), [st EXCEPT !.ns = Del(next_step, from_user)],
                         from_user, text)
        ELSE RunCommand(st, from_user, text)

Dispatch(from_user, text, api_ok) ==
    LET st == Handled(from_user, text, api_ok)
    IN  /\ user_states' = st.us
        /\ next_step' = st.ns
        /\ users' = st.users
        /\ feedback' = st.feedback
        /\ UNCHANGED <<profiles, admin_states>>

Message(from_user, text) ==
    /\ Dispatch(from_user, text, TRUE)
    /\ UNCHANGED <<catalog, shopVars, rlVars>>

\* the same update, kept as the last call: its text, the handlers it ran,
\* whether an exception left them and the last message sent
MessageUpdate(from_user, text, api_ok) ==
    /\ Cardinality(feedback) < MaxFeedback
    /\ Dispatch(from_user, text, api_ok)
    /\ result' = [NoResult EXCEPT !.op = "message", !.text = text,
                                  !.handlers = Armed(from_user),
                                  !.raised = Handled(from_user, text, api_ok).raised,
                                  !.reply = Handled(from_user, text, api_ok).reply]
    /\ UNCHANGED <<catalog, now, promo_codes, orders, order_items, applied, rlVars>>

TracedMessage(from_user, text) == MessageUpdate(from_user, text, TRUE)

\* int(call.data.split(":")[1]) on the callback data of the model; Null when
\* int() raises ValueError
CallbackInt(data) ==
    CASE data = "order:1"  -> 1
      [] data = "order:26" -> 26
      [] OTHER             -> Null

\* callback order:<item_id>
start_order_flow(from_user, item_id) ==
    IF ItemById(item_id) = {} \/ UserByTgId(from_user) = {} THEN user_states
    ELSE Put(user_states, from_user,
             [NoState EXCEPT !.item_id = item_id, !.step = "select_size"])

StartOrderFlow(from_user, item_id) ==
    /\ user_states' = start_order_flow(from_user, item_id)
    /\ UNCHANGED <<catalog, users, feedback, profiles, admin_states, next_step, shopVars, rlVars>>

\* the same callback with its data as received, kept as the last call.  The
\* item id is parsed before the try block; the block has a finally and no
\* except, so a raising edit_message_text or answer_callback_query leaves
\* the handler, after the state is stored.
StartOrderFlowCall(from_user, data, api_ok) ==
    LET item_id == CallbackInt(data)
        missing == ItemById(item_id) = {} \/ UserByTgId(from_user) = {}
    IN  /\ user_states' = IF item_id = Null THEN user_states
                          ELSE start_order_flow(from_user, item_id)
        /\ result' = [NoResult EXCEPT
                        !.op = "start_order_flow", !.text = data,
                        !.raised = item_id = Null \/ ~api_ok,
                        !.reply = IF item_id = Null \/ ~api_ok THEN None
                                  ELSE IF missing THEN "ERROR_PRODUCT_NOT_FOUND"
                                  ELSE "SELECT_SIZE"]
        /\ UNCHANGED <<catalog, users, feedback, profiles, admin_states, next_step, now, promo_codes,
                       orders, order_items, applied, rlVars>>

\* callback size:<item_id>:<size>
HandleSizeSelection(from_user, item_id, size) ==
    /\ Len(Armed(from_user)) < MaxArmed
    /\ IF ItemById(item_id) = {}
       THEN UNCHANGED <<user_states, next_step>>
       ELSE LET item == CHOOSE i \in ItemById(item_id) : TRUE
                old == IF from_user \in DOMAIN user_states THEN user_states[from_user]
                       ELSE NoState
            IN  /\ user_states' = Put(user_states, from_user,
                       [old EXCEPT !.item_id = item_id, !.size = size,
                                   !.step = "select_quantity", !.price = item.price])
                /\ next_step' = Arm(next_step, from_user, "process_quantity")
    /\ UNCHANGED <<catalog, users, feedback, profiles, admin_states, shopVars, rlVars>>

\* callback delivery:<method>
HandleDeliverySelection(from_user, delivery_method) ==
    /\ Len(Armed(from_user)) < MaxArmed
    /\ IF from_user \notin DOMAIN user_states
       THEN UNCHANGED <<user_states, next_step>>
       ELSE /\ user_states' = [user_states EXCEPT
                  ![from_user].delivery_method = delivery_method,
                  ![from_user].step = IF delivery_method = "delivery" THEN "enter_address"
                                      ELSE "enter_phone"]
            /\ next_step' = Arm(next_step, from_user,
                  IF delivery_method = "delivery" THEN "process_address" ELSE "process_phone")
    /\ UNCHANGED <<catalog, users, feedback, profiles, admin_states, shopVars, rlVars>>

\* callback confirm_order.  A key missing from the state, the order number
\* of this second being taken, and an ordered item that is gone when the
\* admins are notified all raise inside the handler: the first two before
\* anything is stored, the last after the order is committed and before the
\* state is cleared.
HandleOrderConfirmation(from_user) ==
    /\ Cardinality(orders) < MaxBotOrders
    /\ IF from_user \notin DOMAIN user_states \/ UserByTgId(from_user) = {}
       THEN UNCHANGED <<orders, order_items, user_states>>
       ELSE LET state == user_states[from_user]
                user == CHOOSE u \in UserByTgId(from_user) : TRUE
                key_error == state.size = None \/ state.quantity = Null \/ state.price = Null
                items_data == << [item_id |-> state.item_id, size |-> state.size,
                                  quantity |-> state.quantity, price |-> state.price] >>
                delivery_method == IF state.delivery_method = None THEN "pickup"
                                   ELSE state.delivery_method
            IN  IF key_error \/ OrderNumberTaken(now)
                THEN UNCHANGED <<orders, order_items, user_states>>
                ELSE \E totals \in calculate_order_total(items_data, delivery_method, None,
                                                         promo_codes, now) :
                       LET order == NewOrder(user.id, totals, delivery_method,
                                             state.address, state.phone, None, now)
                       IN  /\ orders' = orders \cup {order}
                           /\ order_items' = order_items \cup NewOrderItems(order.id, items_data)
                           /\ user_states' = IF ItemById(state.item_id) = {} THEN user_states
                                             ELSE Del(user_states, from_user)
    /\ UNCHANGED <<now, promo_codes, result, applied, catalog, users, feedback, profiles, admin_states, next_step, rlVars>>

\* callback cancel_order
HandleOrderCancellation(from_user) ==
    /\ user_states' = Del(user_states, from_user)
    /\ UNCHANGED <<catalog, users, feedback, profiles, admin_states, next_step, shopVars, rlVars>>

----------------------------------------------------------------------------
(* handlers/admin.py: order status *)

valid_statuses == {"pending", "confirmed", "paid", "shipped", "cancelled"}

StatusValid_any(new_status) == TRUE

\* new_status in valid_statuses
StatusValid(new_status) == new_status \in valid_statuses

\* services/order_service.py update_order_status on the order of the given
\* id: whether it raises ValueError, and the table it leaves
update_order_status(table, order_id, new_status) ==
    IF ~StatusValid(new_status)
    THEN [raised |-> TRUE, orders |-> table]
    ELSE [raised |-> FALSE,
          orders |-> { IF o.id = order_id THEN [o EXCEPT !.status = new_status] ELSE o :
                         o \in table }]

\* a call of update_order_status on a stored order
UpdateOrderStatus(order_id, new_status) ==
    LET r == update_order_status(orders, order_id, new_status)
    IN  /\ \E o \in orders : o.id = order_id
        /\ orders' = r.orders
        /\ result' = [NoResult EXCEPT !.op = "update_order_status", !.ok = ~r.raised,
                        !.order_id = order_id, !.at = now]
        /\ UNCHANGED <<now, promo_codes, order_items, applied, rlVars, botVars>>

\* utils/keyboards.py create_order_actions_keyboard: the statuses of the
\* buttons shown for an order of the given status
create_order_actions_keyboard(current_status) ==
    CASE current_status = "pending"   -> {"confirmed", "cancelled"}
      [] current_status = "confirmed" -> {"shipped", "cancelled"}
      [] OTHER                        -> {}

\* callback order_status:<order_id>:<new_status>; an unknown status raises
\* ValueError, which the handler catches
HandleOrderStatusUpdate(from_user, order_id, new_status) ==
    /\ orders' = IF \E o \in orders : o.id = order_id
                 THEN update_order_status(orders, order_id, new_status).orders
                 ELSE orders
    /\ UNCHANGED <<now, promo_codes, order_items, result, applied,
                   catalog, users, feedback, profiles, admin_states, user_states, next_step, rlVars>>

----------------------------------------------------------------------------
(* Orders created and moved between statuses through the Order Service *)

ServiceStatusInputs == valid_statuses \cup {"bogus", "PENDING", ""}

InitStatus == InitShopIdle /\ RateLimiterInit(DefaultLimiter)

NextStatus ==
    \/ Tick
    \/ CreateOrder(1, <<LineA>>, "pickup", None, "+380501234567", None)
    \/ \E id \in 1..MaxOrders, s \in ServiceStatusInputs : UpdateOrderStatus(id, s)

SpecStatus == InitStatus /\ [][NextStatus]_vars

----------------------------------------------------------------------------
(* The bot serving updates, one at a time *)

\* the accounts: a customer, and an administrator of ADMIN_IDS
\* the username and names a Telegram account shows
DefaultProfile == [username |-> "anna", first_name |-> "Anna", last_name |-> None]

Customers == {1}
Accounts == Customers \cup ActingAdmins
ItemInputs == {1}
SizeInputs == {"42"}
OrderIdInputs == {1, 2}
StatusInputs == {"confirmed", "shipped", "cancelled", "bogus"}

\* the database as the first start of the bot seeds it
SeededDb == seed_extensive_data({}, {}, 0)

InitBot ==
    /\ now = 0
    /\ promo_codes = SeededDb.promo_codes
    /\ orders = {}
    /\ order_items = {}
    /\ result = NoResult
    /\ applied = ZeroApplied
    /\ RateLimiterInit(DefaultLimiter)
    /\ catalog = SeededDb.items
    /\ users = {}
    /\ feedback = {}
    /\ profiles = [a \in Accounts |-> DefaultProfile]
    /\ admin_states = EmptyDict
    /\ user_states = EmptyDict
    /\ next_step = EmptyDict

\* the messages and taps of the order conversation
OrderUpdate(a) ==
    \/ \E text \in Texts : Message(a, text)
    \/ \E id \in ItemInputs : StartOrderFlow(a, id)
    \/ \E id \in ItemInputs, size \in SizeInputs : HandleSizeSelection(a, id, size)
    \/ \E m \in DeliveryMethods : HandleDeliverySelection(a, m)
    \/ HandleOrderConfirmation(a)
    \/ HandleOrderCancellation(a)

\* the callbacks of the admin keyboards
AdminUpdate(a) ==
    \/ \E id \in OrderIdInputs, s \in StatusInputs : HandleOrderStatusUpdate(a, id, s)
    \/ \E id \in ItemInputs : ConfirmRemoveItem(a, id)

\* the updates an account can send
UpdateFrom(a) == OrderUpdate(a) \/ AdminUpdate(a)

\* the customers send every update, the administrator the admin callbacks
NextBot ==
    \/ NextDay
    \/ \E a \in Customers : OrderUpdate(a)
    \/ \E a \in Accounts : AdminUpdate(a)

SpecBot == InitBot /\ [][NextBot]_vars

----------------------------------------------------------------------------
(* One customer in the order conversation, every message kept as the last
   call *)

FlowUpdate(a) ==
    \/ \E text \in Texts : TracedMessage(a, text)
    \/ \E id \in ItemInputs : StartOrderFlow(a, id)
    \/ \E id \in ItemInputs, size \in SizeInputs : HandleSizeSelection(a, id, size)
    \/ \E m \in DeliveryMethods : HandleDeliverySelection(a, m)
    \/ HandleOrderCancellation(a)

InitFlow == InitBot

NextFlow == \E a \in Customers : FlowUpdate(a)

SpecFlow == InitFlow /\ [][NextFlow]_vars

----------------------------------------------------------------------------
(* Updates that make a handler fail: messages without text, callback data
   that is not a number, calls of the Bot API that raise *)

FailTexts == {None, "/start", "/feedback", "/catalog", "nice", "great shoes"}
OrderData == {"order:1", "order:26", "order:"}

InitFail == InitBot

NextFail ==
    \/ \E a \in Customers, text \in FailTexts, api_ok \in BOOLEAN :
          MessageUpdate(a, text, api_ok)
    \/ \E a \in Customers, data \in OrderData, api_ok \in BOOLEAN :
          StartOrderFlowCall(a, data, api_ok)

SpecFail == InitFail /\ [][NextFail]_vars

----------------------------------------------------------------------------
(* Accounts that start the bot and leave feedback while their Telegram
   profiles change *)

ProfileInputs ==
    { DefaultProfile, [username |-> None, first_name |-> "Anna", last_name |-> "K"] }
UserTexts == {"/start", "/feedback", "nice", "great shoes"}

\* the owner of an account edits the profile
ChangeProfile(a, p) ==
    /\ profiles[a] # p
    /\ profiles' = [profiles EXCEPT ![a] = p]
    /\ UNCHANGED <<admin_states, catalog, users, feedback, user_states, next_step, shopVars, rlVars>>

InitUsers == InitBot

NextUsers ==
    \/ \E a \in Accounts, p \in ProfileInputs : ChangeProfile(a, p)
    \/ \E a \in Accounts, text \in UserTexts, api_ok \in BOOLEAN :
          MessageUpdate(a, text, api_ok)

SpecUsers == InitUsers /\ [][NextUsers]_vars

----------------------------------------------------------------------------
(* One customer placing orders, next to calls of validate_quantity *)

QuantityTexts == {None, "0", "1", " 2 ", "99", "100", "-5", "5.5", "five"}

InitPlace == InitBot

NextPlace ==
    \/ \E a \in Customers : OrderUpdate(a)
    \/ \E text \in QuantityTexts : ValidateQuantity(text)

SpecPlace == InitPlace /\ [][NextPlace]_vars

----------------------------------------------------------------------------
(* The Confirm and Cancel taps of one customer, each kept as the last call,
   with Telegram calls that may fail *)

handle_order_cancellation_keep(us, user_id) == us

\* handlers/orders.py handle_order_cancellation on user_states: the entry
\* of the account is deleted before any Telegram call
handle_order_cancellation(us, user_id) == Del(us, user_id)

\* callback cancel_order; the handler has no try block, so a raising
\* edit_message_text leaves it after the state is deleted
HandleOrderCancellationCall(from_user, api_ok) ==
    /\ user_states' = handle_order_cancellation(user_states, from_user)
    /\ result' = [NoResult EXCEPT !.op = "cancel_order",
                                  !.ok = from_user \in DOMAIN user_states,
                                  !.raised = ~api_ok,
                                  !.reply = IF api_ok THEN "ORDER_CANCELLED" ELSE None]
    /\ UNCHANGED <<catalog, users, feedback, profiles, admin_states, next_step, now, promo_codes,
                   orders, order_items, applied, rlVars>>

RECURSIVE SendAll_abort(_, _)
SendAll_abort(admin_ids, unreachable) ==
    IF admin_ids = <<>> THEN <<>>
    ELSE IF Head(admin_ids) \in unreachable THEN << [to |-> Head(admin_ids), ok |-> FALSE] >>
    ELSE << [to |-> Head(admin_ids), ok |-> TRUE] >> \o SendAll_abort(Tail(admin_ids), unreachable)

RECURSIVE SendAll(_, _)
\* for admin_id in Config.ADMIN_IDS: try: bot.send_message(admin_id, text)
\* except Exception: the sends attempted, in order, and whether each went
\* through; the send to an administrator out of reach raises
SendAll(admin_ids, unreachable) ==
    IF admin_ids = <<>> THEN <<>>
    ELSE << [to |-> Head(admin_ids), ok |-> Head(admin_ids) \notin unreachable] >>
         \o SendAll(Tail(admin_ids), unreachable)

\* callback confirm_order, with Config.ADMIN_IDS and the administrators out
\* of reach given.  The sends of notify_admins are caught one by
\* one; a raising edit_message_text, or the summary of an order whose item
\* is gone, goes to the except block of the handler after the order is
\* committed, and the state stays.
HandleOrderConfirmationSends(from_user, api_ok, admin_ids, unreachable) ==
    /\ Cardinality(orders) < MaxBotOrders
    /\ IF from_user \notin DOMAIN user_states \/ UserByTgId(from_user) = {}
       THEN /\ UNCHANGED <<orders, order_items, user_states>>
            /\ result' = [NoResult EXCEPT !.op = "confirm_order", !.ok = FALSE,
                                          !.reply = "ERROR_GENERAL"]
       ELSE LET state == user_states[from_user]
                user == CHOOSE u \in UserByTgId(from_user) : TRUE
                key_error == state.size = None \/ state.quantity = Null \/ state.price = Null
                items_data == << [item_id |-> state.item_id, size |-> state.size,
                                  quantity |-> state.quantity, price |-> state.price] >>
                delivery_method == IF state.delivery_method = None THEN "pickup"
                                   ELSE state.delivery_method
            IN  IF key_error \/ OrderNumberTaken(now)
                THEN /\ UNCHANGED <<orders, order_items, user_states>>
                     /\ result' = [NoResult EXCEPT !.op = "confirm_order", !.ok = FALSE,
                                                   !.reply = "ERROR_GENERAL"]
                ELSE \E totals \in calculate_order_total(items_data, delivery_method, None,
                                                         promo_codes, now) :
                       LET order == NewOrder(user.id, totals, delivery_method,
                                             state.address, state.phone, None, now)
                           done == ItemById(state.item_id) # {} /\ api_ok
                       IN  /\ orders' = orders \cup {order}
                           /\ order_items' = order_items \cup NewOrderItems(order.id, items_data)
                           /\ user_states' = IF done THEN Del(user_states, from_user)
                                             ELSE user_states
                           /\ result' = [NoResult EXCEPT
                                           !.op = "confirm_order", !.ok = done,
                                           !.order_id = order.id,
                                           !.reply = IF done THEN "ORDER_CREATED"
                                                     ELSE "ERROR_GENERAL",
                                           !.admins = admin_ids,
                                           !.announced = ItemById(state.item_id) # {},
                                           !.sends = IF ItemById(state.item_id) = {} THEN <<>>
                                                     ELSE SendAll(admin_ids, unreachable)]
    /\ UNCHANGED <<now, promo_codes, applied, catalog, users, feedback, profiles, admin_states,
                   next_step, rlVars>>

\* the same tap with the one administrator of ADMIN_IDS within reach
HandleOrderConfirmationCall(from_user, api_ok) ==
    HandleOrderConfirmationSends(from_user, api_ok, <<100>>, {})

CancelTexts == {" 2 ", "/start"}

InitCancel == InitBot

NextCancel ==
    \/ \E a \in Customers, text \in CancelTexts : Message(a, text)
    \/ \E a \in Customers, id \in ItemInputs, size \in SizeInputs :
          HandleSizeSelection(a, id, size)
    \/ \E a \in Customers, m \in DeliveryMethods : HandleDeliverySelection(a, m)
    \/ \E a \in Customers, api_ok \in BOOLEAN : HandleOrderConfirmationCall(a, api_ok)
    \/ \E a \in Customers, api_ok \in BOOLEAN : HandleOrderCancellationCall(a, api_ok)

SpecCancel == InitCancel /\ [][NextCancel]_vars

----------------------------------------------------------------------------
(* New orders and feedback announced to the administrators *)

\* a message, kept as the last call with the sends of notify_admins_feedback:
\* process_feedback announces the feedback after the row is committed and
\* the thanks are sent
MessageSends(from_user, text, api_ok, admin_ids, unreachable) ==
    LET st == Handled(from_user, text, api_ok)
        announced == st.reply = "FEEDBACK_THANKS"
    IN  /\ Cardinality(feedback) < MaxFeedback
        /\ Dispatch(from_user, text, api_ok)
        /\ result' = [NoResult EXCEPT
                        !.op = "message", !.text = text, !.handlers = Armed(from_user),
                        !.raised = st.raised, !.reply = st.reply,
                        !.order_id = IF announced THEN NextId(feedback) ELSE Null,
                        !.admins = admin_ids,
                        !.announced = announced,
                        !.sends = IF announced THEN SendAll(admin_ids, unreachable) ELSE <<>>]
        /\ UNCHANGED <<catalog, now, promo_codes, orders, order_items, applied, rlVars>>

\* Config.ADMIN_IDS as the environment can set it: one administrator, or two
AdminIdLists == { <<100>>, <<100, 101>> }
\* the administrators the bot cannot write to: none, the first, or both
Unreachable == { {}, {100}, {100, 101} }

NotifyTexts == {"/start", "/feedback", "great shoes", " 2 "}

InitNotify == InitBot

NextNotify ==
    \/ \E a \in Customers, text \in NotifyTexts, api_ok \in BOOLEAN,
          admin_ids \in AdminIdLists, unreachable \in Unreachable :
          MessageSends(a, text, api_ok, admin_ids, unreachable)
    \/ \E a \in Customers, id \in ItemInputs, size \in SizeInputs :
          HandleSizeSelection(a, id, size)
    \/ \E a \in ActingAdmins, id \in ItemInputs : ConfirmRemoveItem(a, id)
    \/ \E a \in Customers, api_ok \in BOOLEAN,
          admin_ids \in AdminIdLists, unreachable \in Unreachable :
          HandleOrderConfirmationSends(a, api_ok, admin_ids, unreachable)

SpecNotify == InitNotify /\ [][NextNotify]_vars

----------------------------------------------------------------------------
(* Stored orders under later changes of the catalog, the promo codes and
   the order statuses *)

MIN_PRICE == 1
MAX_PRICE == 100000000

\* utils/validators.py validate_price on a price in minor units
validate_price(price) == MIN_PRICE <= price /\ price <= MAX_PRICE

\* services/product_service.py update_item(db, item_id, price=price)
update_item(table, item_id, price) ==
    IF ~\E i \in table : i.id = item_id THEN [ok |-> FALSE, items |-> table]
    ELSE IF ~validate_price(price) THEN [ok |-> FALSE, items |-> table]
    ELSE [ok |-> TRUE,
          items |-> { IF i.id = item_id THEN [i EXCEPT !.price = price] ELSE i : i \in table }]

delete_item_cascade(item_table, lines, item_id) ==
    LET found == {i \in item_table : i.id = item_id}
    IN  [ok |-> found # {}, items |-> item_table \ found,
         order_items |-> {l \in lines : l.item_id # item_id}]

\* services/product_service.py delete_item.  db.delete of an item sets
\* item_id of its order lines to NULL; the column is NOT NULL, so the commit
\* raises and neither table changes.
delete_item(item_table, lines, item_id) ==
    LET found == {i \in item_table : i.id = item_id}
        referenced == \E l \in lines : l.item_id = item_id
    IN  IF found = {} \/ referenced
        THEN [ok |-> FALSE, items |-> item_table, order_items |-> lines]
        ELSE [ok |-> TRUE, items |-> item_table \ found, order_items |-> lines]

\* services/promo_service.py deactivate_promo_code
deactivate_promo_code(table, code) ==
    { IF p.code = Upper(code) THEN [p EXCEPT !.is_active = FALSE] ELSE p : p \in table }

\* services/promo_service.py update_promo_code(db, code, discount_percent=d)
update_promo_code(table, code, discount_percent) ==
    IF validate_promo_discount(discount_percent)
    THEN { IF p.code = Upper(code) THEN [p EXCEPT !.discount_percent = discount_percent] ELSE p :
             p \in table }
    ELSE table

UpdateItem(item_id, price) ==
    LET r == update_item(catalog, item_id, price)
    IN  /\ catalog' = r.items
        /\ result' = [NoResult EXCEPT !.op = "update_item", !.ok = r.ok, !.at = now]
        /\ UNCHANGED <<now, promo_codes, orders, order_items, applied, rlVars,
                       users, feedback, profiles, admin_states, user_states, next_step>>

DeleteItem(item_id) ==
    LET r == delete_item(catalog, order_items, item_id)
    IN  /\ catalog' = r.items
        /\ order_items' = r.order_items
        /\ result' = [NoResult EXCEPT !.op = "delete_item", !.ok = r.ok, !.at = now]
        /\ UNCHANGED <<now, promo_codes, orders, applied, rlVars,
                       users, feedback, profiles, admin_states, user_states, next_step>>

DeactivatePromoCode(code) ==
    /\ promo_codes' = deactivate_promo_code(promo_codes, code)
    /\ result' = [NoResult EXCEPT !.op = "deactivate_promo_code", !.promo_code = code,
                    !.ok = PromoByCode(promo_codes, Upper(code)) # {}, !.at = now]
    /\ UNCHANGED <<now, orders, order_items, applied, rlVars, botVars>>

UpdatePromoCode(code, discount_percent) ==
    /\ promo_codes' = update_promo_code(promo_codes, code, discount_percent)
    /\ result' = [NoResult EXCEPT !.op = "update_promo_code", !.promo_code = code,
                    !.ok = /\ PromoByCode(promo_codes, Upper(code)) # {}
                           /\ validate_promo_discount(discount_percent),
                    !.at = now]
    /\ UNCHANGED <<now, orders, order_items, applied, rlVars, botVars>>

MaxFrameOrders == 1
FrameItemIds == {1, 2}
FrameCodes == {None, "WELCOME10"}
FramePrices == {0, 199900}
FrameStatuses == {"confirmed"}

\* an order of two pairs of a catalog item at the price the catalog shows,
\* as the order flow captures it when the size is chosen
OrderFromCatalog(item_id, promo_code) ==
    /\ Cardinality(orders) < MaxFrameOrders
    /\ \E item \in catalog :
          /\ item.id = item_id
          /\ CreateOrder(1, <<[item_id |-> item.id, size |-> "42", quantity |-> 2,
                               price |-> item.price]>>,
                         "delivery", "Kyiv", "+380501234567", promo_code)

InitFrame == InitBot

NextFrame ==
    \/ NextDay
    \/ \E i \in FrameItemIds, c \in FrameCodes : OrderFromCatalog(i, c)
    \/ \E i \in FrameItemIds, p \in FramePrices : UpdateItem(i, p)
    \/ \E i \in FrameItemIds : DeleteItem(i)
    \/ \E i \in FrameItemIds : ConfirmRemoveItem(100, i)
    \/ \E c \in FrameCodes \ {None} : DeactivatePromoCode(c)
    \/ \E c \in FrameCodes \ {None} : UpdatePromoCode(c, 50)
    \/ \E o \in orders, s \in FrameStatuses : UpdateOrderStatus(o.id, s)

SpecFrame == InitFrame /\ [][NextFrame]_vars

----------------------------------------------------------------------------
(* handlers/admin.py: the conversations that add an item and a promo code *)

\* a group chat both accounts write to; a private chat has the id of its account
GroupChat == 0

\* a key the admin state does not hold
Missing == "<missing>"

\* the keys of an admin conversation state; a price not held is Null and
\* sizes not held are the empty list
NoAdminState ==
    [action |-> None, step |-> None, name |-> Missing, sku |-> Missing, price |-> Null,
     sizes |-> <<>>, description |-> Missing, category |-> Missing, code |-> Missing]

\* whether every character of the text is one of [A-Za-z0-9_-]
SkuChars(text) ==
    CASE text = "BOOT-7" -> TRUE
      [] text = "boot-7" -> TRUE
      [] text = "38"     -> TRUE
      [] text = "B7"     -> TRUE
      [] text = "NIKE-AIR-001" -> TRUE
      [] text = "NIKE-AF-003"  -> TRUE
      [] OTHER           -> FALSE

\* len() of the texts sent to the admin handlers
SkuLen(text) ==
    CASE text = "BOOT-7"     -> 6
      [] text = "boot-7"     -> 6
      [] text = "38"         -> 2
      [] text = "B7"         -> 2
      [] text = "NIKE-AIR-001" -> 12
      [] text = "NIKE-AF-003"  -> 11
      [] text = "/add_item"  -> 9
      [] text = "/ADD_ITEM"  -> 9
      [] text = "/promo_add" -> 10
      [] text = "/PROMO_ADD" -> 10
      [] OTHER               -> 0

\* utils/validators.py validate_sku: ^[A-Z0-9_-]{3,50}$, letters of either case
validate_sku(sku) ==
    SkuChars(Strip(sku)) /\ 3 <= SkuLen(Strip(sku)) /\ SkuLen(Strip(sku)) <= 50

\* float(text.strip().replace(",", ".")) in hundredths; not ok when float()
\* raises ValueError, or AttributeError for a message without text
FloatOf(text) ==
    CASE text = "38"  -> [ok |-> TRUE, value |-> 3800]
      [] text = "0"   -> [ok |-> TRUE, value |-> 0]
      [] text = "100" -> [ok |-> TRUE, value |-> 10000]
      [] text = "101" -> [ok |-> TRUE, value |-> 10100]
      [] OTHER        -> [ok |-> FALSE, value |-> 0]

\* utils/validators.py validate_price on a text: the price in minor units, or nothing
validate_price_str(price_str) ==
    IF FloatOf(price_str).ok /\ validate_price(FloatOf(price_str).value)
    THEN FloatOf(price_str).value ELSE Null

\* utils/validators.py validate_promo_discount on a text: the percentage, or
\* nothing; the texts of the model spell whole percentages
validate_promo_discount_str(discount_str) ==
    LET d == FloatOf(discount_str)
    IN  IF d.ok /\ validate_promo_discount(d.value \div 100) THEN d.value \div 100 ELSE Null

\* text.split(",") on the texts of the model, none of which holds a comma
SplitComma(text) == << text >>

\* str.lower() on the texts of the model
Lower(s) ==
    CASE s = "BOOT-7" -> "boot-7"
      [] s = "MEN"    -> "men"
      [] s = "Kids"   -> "kids"
      [] OTHER        -> s

\* the admin handlers, from what a message finds to what it leaves:
\* ast = [as, ns, catalog, promo_codes] are admin_states, the armed handlers
\* and the two tables; ast.reply is the last message sent.  The calls of
\* the Bot API succeed.

start_add_item(ast, chat_id, user_id) ==
    IF ~is_admin(user_id) THEN ast
    ELSE [ast EXCEPT !.as = Put(@, user_id, [NoAdminState EXCEPT !.action = "add_item",
                                                                 !.step = "name"]),
                     !.reply = "ADD_ITEM_NAME",
                     !.ns = Arm(@, chat_id, "process_item_name")]

\* message.text of a message without text is None, and None.strip() raises
process_item_name(ast, chat_id, user_id, text) ==
    IF user_id \notin DOMAIN ast.as \/ text = None THEN ast
    ELSE [ast EXCEPT !.as[user_id].name = Strip(text), !.as[user_id].step = "sku",
                     !.reply = "ENTER_SKU",
                     !.ns = Arm(@, chat_id, "process_item_sku")]

process_item_sku(ast, chat_id, user_id, text) ==
    IF user_id \notin DOMAIN ast.as \/ text = None THEN ast
    ELSE LET sku == Upper(Strip(text))
         IN  IF ~validate_sku(sku)
             THEN [ast EXCEPT !.reply = "SKU_FORMAT",
                              !.ns = Arm(@, chat_id, "process_item_sku")]
             ELSE IF \E i \in ast.catalog : i.sku = sku
             THEN [ast EXCEPT !.reply = "SKU_EXISTS",
                              !.ns = Arm(@, chat_id, "process_item_sku")]
             ELSE [ast EXCEPT !.as[user_id].sku = sku, !.as[user_id].step = "price",
                              !.reply = "ADD_ITEM_PRICE",
                              !.ns = Arm(@, chat_id, "process_item_price")]

process_item_price(ast, chat_id, user_id, text) ==
    IF user_id \notin DOMAIN ast.as THEN ast
    ELSE LET price == validate_price_str(text)
         IN  IF ~Truthy(price)
             THEN [ast EXCEPT !.reply = "INVALID_PRICE",
                              !.ns = Arm(@, chat_id, "process_item_price")]
             ELSE [ast EXCEPT !.as[user_id].price = price, !.as[user_id].step = "sizes",
                              !.reply = "ADD_ITEM_SIZES",
                              !.ns = Arm(@, chat_id, "process_item_sizes")]

process_item_sizes(ast, chat_id, user_id, text) ==
    IF user_id \notin DOMAIN ast.as THEN ast
    ELSE LET sizes == IF text = None THEN None ELSE validate_sizes(SplitComma(text))
         IN  IF sizes = None
             THEN [ast EXCEPT !.reply = "INVALID_SIZES",
                              !.ns = Arm(@, chat_id, "process_item_sizes")]
             ELSE [ast EXCEPT !.as[user_id].sizes = sizes,
                              !.as[user_id].step = "description",
                              !.reply = "ADD_ITEM_DESCRIPTION",
                              !.ns = Arm(@, chat_id, "process_item_description")]

process_item_description(ast, chat_id, user_id, text) ==
    IF user_id \notin DOMAIN ast.as \/ text = None THEN ast
    ELSE [ast EXCEPT !.as[user_id].description = Strip(text),
                     !.as[user_id].step = "category",
                     !.reply = "ENTER_CATEGORY",
                     !.ns = Arm(@, chat_id, "process_item_category")]

process_item_category(ast, chat_id, user_id, text) ==
    IF user_id \notin DOMAIN ast.as \/ text = None THEN ast
    ELSE LET category == Lower(Strip(text))
         IN  [ast EXCEPT !.as[user_id].category =
                             IF category \in {"men", "women", "kids"} THEN category ELSE None,
                         !.as[user_id].step = "image",
                         !.reply = "ADD_ITEM_IMAGE",
                         !.ns = Arm(@, chat_id, "process_item_image")]

process_item_image_unchecked(ast, chat_id, user_id, text) ==
    IF user_id \notin DOMAIN ast.as THEN ast
    ELSE LET state == ast.as[user_id]
             key_error == \/ state.sku = Missing \/ state.name = Missing
                          \/ state.price = Null \/ state.description = Missing
                          \/ state.category = Missing \/ state.sizes = <<>>
         IN  IF key_error
             THEN [ast EXCEPT !.reply = "ERROR_GENERAL"]
             ELSE [ast EXCEPT !.catalog = @ \cup {ItemRow(NextId(ast.catalog), state.sku,
                                                          state.price, state.sizes,
                                                          state.category)},
                              !.as = Del(@, user_id),
                              !.reply = "ADD_ITEM_SUCCESS"]

\* a key the state does not hold, and a SKU taken since it was entered,
\* raise inside the try block: nothing is stored and the state stays
process_item_image(ast, chat_id, user_id, text) ==
    IF user_id \notin DOMAIN ast.as THEN ast
    ELSE LET state == ast.as[user_id]
             key_error == \/ state.sku = Missing \/ state.name = Missing
                          \/ state.price = Null \/ state.description = Missing
                          \/ state.category = Missing \/ state.sizes = <<>>
         IN  IF key_error \/ \E i \in ast.catalog : i.sku = state.sku
             THEN [ast EXCEPT !.reply = "ERROR_GENERAL"]
             ELSE [ast EXCEPT !.catalog = @ \cup {ItemRow(NextId(ast.catalog), state.sku,
                                                          state.price, state.sizes,
                                                          state.category)},
                              !.as = Del(@, user_id),
                              !.reply = "ADD_ITEM_SUCCESS"]

start_add_promo(ast, chat_id, user_id) ==
    IF ~is_admin(user_id) THEN ast
    ELSE [ast EXCEPT !.as = Put(@, user_id, [NoAdminState EXCEPT !.action = "add_promo",
                                                                 !.step = "code"]),
                     !.reply = "PROMO_ADD_CODE",
                     !.ns = Arm(@, chat_id, "process_promo_code")]

process_promo_code(ast, chat_id, user_id, text) ==
    IF user_id \notin DOMAIN ast.as \/ text = None THEN ast
    ELSE LET code == Upper(Strip(text))
         IN  IF \E p \in ast.promo_codes : p.code = code
             THEN [ast EXCEPT !.reply = "PROMO_EXISTS",
                              !.ns = Arm(@, chat_id, "process_promo_code")]
             ELSE [ast EXCEPT !.as[user_id].code = code, !.as[user_id].step = "discount",
                              !.reply = "PROMO_ADD_DISCOUNT",
                              !.ns = Arm(@, chat_id, "process_promo_discount")]

\* the state has no key 'code' when /add_item replaced it in another chat,
\* and the code may be taken since it was entered: both raise inside the try
\* block
process_promo_discount(ast, chat_id, user_id, text) ==
    IF user_id \notin DOMAIN ast.as THEN ast
    ELSE LET discount == validate_promo_discount_str(text)
             state == ast.as[user_id]
         IN  IF ~Truthy(discount)
             THEN [ast EXCEPT !.reply = "INVALID_DISCOUNT",
                              !.ns = Arm(@, chat_id, "process_promo_discount")]
             ELSE IF state.code = Missing \/ \E p \in ast.promo_codes : p.code = state.code
             THEN [ast EXCEPT !.reply = "ERROR_GENERAL"]
             ELSE [ast EXCEPT !.promo_codes = @ \cup {PromoRow(NextId(ast.promo_codes),
                                                               state.code, discount,
                                                               Null, Null, 0, TRUE)},
                              !.as = Del(@, user_id),
                              !.reply = "PROMO_ADD_SUCCESS"]

RunAdminHandler(handler, ast, chat_id, user_id, text) ==
    CASE handler = "process_item_name"        -> process_item_name(ast, chat_id, user_id, text)
      [] handler = "process_item_sku"         -> process_item_sku(ast, chat_id, user_id, text)
      [] handler = "process_item_price"       -> process_item_price(ast, chat_id, user_id, text)
      [] handler = "process_item_sizes"       -> process_item_sizes(ast, chat_id, user_id, text)
      [] handler = "process_item_description" -> process_item_description(ast, chat_id, user_id, text)
      [] handler = "process_item_category"    -> process_item_category(ast, chat_id, user_id, text)
      [] handler = "process_item_image"       -> process_item_image(ast, chat_id, user_id, text)
      [] handler = "process_promo_code"       -> process_promo_code(ast, chat_id, user_id, text)
      [] handler = "process_promo_discount"   -> process_promo_discount(ast, chat_id, user_id, text)

RECURSIVE RunAdminHandlers(_, _, _, _, _)
RunAdminHandlers(handlers, ast, chat_id, user_id, text) ==
    IF handlers = <<>> THEN ast
    ELSE RunAdminHandlers(Tail(handlers),
                          RunAdminHandler(Head(handlers), ast, chat_id, user_id, text),
                          chat_id, user_id, text)

\* the labels of the two buttons of the admin keyboard that start a conversation
BTN_ADMIN_ADD == "BTN_ADMIN_ADD"
BTN_ADMIN_PROMO == "BTN_ADMIN_PROMO"

\* register_admin_handlers: the message handlers that start a conversation
RunAdminCommand(ast, chat_id, user_id, text) ==
    CASE text = "/add_item"     -> start_add_item(ast, chat_id, user_id)
      [] text = "/promo_add"    -> start_add_promo(ast, chat_id, user_id)
      [] text = BTN_ADMIN_ADD   -> start_add_item(ast, chat_id, user_id)
      [] text = BTN_ADMIN_PROMO -> start_add_promo(ast, chat_id, user_id)
      [] OTHER                  -> ast

\* a message in a chat: the handlers armed for the chat are taken off and
\* run on it, whoever sent it; with none armed it goes to the message handlers
AdminHandled(chat_id, from_user, text) ==
    LET ast == [as |-> admin_states, ns |-> next_step, catalog |-> catalog,
                promo_codes |-> promo_codes, reply |-> None]
    IN  IF Armed(chat_id) # <<>>
        THEN RunAdminHandlers(Armed(chat_id), [ast EXCEPT !.ns = Del(next_step, chat_id)],
                              chat_id, from_user, text)
        ELSE RunAdminCommand(ast, chat_id, from_user, text)

\* the rows the admin conversations may add to the seeded tables
MaxAdded == 1

AdminMessage(chat_id, from_user, text) ==
    LET ast == AdminHandled(chat_id, from_user, text)
    IN  /\ Cardinality(catalog) + Cardinality(promo_codes)
              < Cardinality(SeededDb.items) + Cardinality(SeededDb.promo_codes) + MaxAdded
        /\ admin_states' = ast.as
        /\ next_step' = ast.ns
        /\ catalog' = ast.catalog
        /\ promo_codes' = ast.promo_codes
        /\ result' = [NoResult EXCEPT !.op = "message", !.from_user = from_user,
                                      !.handlers = Armed(chat_id)]
        /\ UNCHANGED <<now, orders, order_items, applied, rlVars,
                       users, feedback, profiles, user_states>>

\* what the accounts send: the two commands and answers
AdminTexts == {"/add_item", "/promo_add", "BOOT-7", "38"}

\* the private chat of the administrator carries the messages of its
\* account, the group chat those of all
Chats == ActingAdmins \cup {GroupChat}
Senders(chat_id) == IF chat_id = GroupChat THEN Accounts ELSE {chat_id}

InitAdmin == InitBot

NextAdmin ==
    \E chat_id \in Chats : \E from_user \in Senders(chat_id), text \in AdminTexts :
        AdminMessage(chat_id, from_user, text)

SpecAdmin == InitAdmin /\ [][NextAdmin]_vars

----------------------------------------------------------------------------
(* bot.py register_handlers: the message handlers in the order registered;
   a button label is written as the name it has in utils/locales.py *)

BTN_ADMIN_EXPORT == "BTN_ADMIN_EXPORT"

\* the command a text starts with, without the slash; None for a text that
\* is no command
CommandOf(text) ==
    CASE text = "/start"         -> "start"
      [] text = "/catalog"       -> "catalog"
      [] text = "/feedback"      -> "feedback"
      [] text = "/add_item"      -> "add_item"
      [] text = "/promo_add"     -> "promo_add"
      [] text = "/export_orders" -> "export_orders"
      [] text = "/export"        -> "export"
      [] text = "/nosuch"        -> "nosuch"
      [] OTHER                   -> None

\* a handler registered for commands, or for the texts its filter accepts
OnCommands(name, commands) == [name |-> name, commands |-> commands, texts |-> {}, all |-> FALSE]
OnTexts(name, texts) == [name |-> name, commands |-> {}, texts |-> texts, all |-> FALSE]

MessageHandlers ==
    << OnCommands("start_wrapper", {"start"}),
       OnCommands("help_wrapper", {"help"}),
       OnCommands("info_wrapper", {"info"}),
       OnCommands("hello_wrapper", {"hello"}),
       OnTexts("menu_buttons_wrapper", {"BTN_CATALOG", "BTN_MY_ORDERS", "BTN_INFO", "BTN_CONTACT"}),
       OnCommands("catalog_wrapper", {"catalog"}),
       OnCommands("order_command_wrapper", {"order"}),
       OnCommands("admin_wrapper", {"admin"}),
       OnCommands("add_item_wrapper", {"add_item"}),
       OnCommands("remove_item_wrapper", {"remove_item"}),
       OnCommands("orders_wrapper", {"orders", "orderlist", "zamovlennya"}),
       OnCommands("promo_add_wrapper", {"promo_add"}),
       OnCommands("export_orders_wrapper", {"export_orders"}),
       OnTexts("admin_add_wrapper", {BTN_ADMIN_ADD}),
       OnTexts("admin_remove_wrapper", {"BTN_ADMIN_REMOVE"}),
       OnTexts("admin_orders_wrapper", {"BTN_ADMIN_ORDERS"}),
       OnTexts("admin_promo_wrapper", {BTN_ADMIN_PROMO}),
       OnTexts("back_wrapper", {"BTN_BACK"}),
       OnCommands("export_orders_wrapper", {"export_orders", "export", "eksport"}),
       OnCommands("feedback_wrapper", {"feedback"}),
       OnCommands("promo_wrapper", {"promo", "promocodes", "promokody", "promokodi",
                                    "skidki", "znyzhky"}),
       [name |-> "catch_all", commands |-> {}, texts |-> {}, all |-> TRUE] >>

Matches(h, text) ==
    \/ h.all
    \/ CommandOf(text) # None /\ CommandOf(text) \in h.commands
    \/ text \in h.texts

\* the first handler, in registration order, whose filter accepts the text
FirstMatch(text) ==
    LET i == CHOOSE i \in 1..Len(MessageHandlers) :
                 /\ Matches(MessageHandlers[i], text)
                 /\ \A j \in 1..(i - 1) : ~Matches(MessageHandlers[j], text)
    IN  MessageHandlers[i].name

\* handlers/admin.py export_orders_command.  The module imports datetime as
\* a module, so datetime.now() raises for the file name once there are
\* orders to write, and the except block answers.
export_orders_command(ast, user_id) ==
    IF ~is_admin(user_id) THEN [ast EXCEPT !.reply = "NOT_ADMIN"]
    ELSE IF orders = {} THEN [ast EXCEPT !.reply = "NO_ORDERS"]
    ELSE [ast EXCEPT !.reply = "EXPORT_ERROR"]

\* bot.py catch_all
catch_all(ast, text) ==
    IF CommandOf(text) # None THEN [ast EXCEPT !.reply = "UNKNOWN_COMMAND"]
    ELSE [ast EXCEPT !.reply = "ONLY_COMMANDS"]

\* the handler a message without armed next-step handlers is given to
RunRegistered(name, ast, chat_id, user_id, text) ==
    CASE name \in {"add_item_wrapper", "admin_add_wrapper"} -> start_add_item(ast, chat_id, user_id)
      [] name \in {"promo_add_wrapper", "admin_promo_wrapper"} -> start_add_promo(ast, chat_id, user_id)
      [] name = "export_orders_wrapper" -> export_orders_command(ast, user_id)
      [] name = "catch_all" -> catch_all(ast, text)
      [] OTHER -> ast

MenuHandled(chat_id, from_user, text) ==
    LET ast == [as |-> admin_states, ns |-> next_step, catalog |-> catalog,
                promo_codes |-> promo_codes, reply |-> None]
    IN  IF Armed(chat_id) # <<>>
        THEN RunAdminHandlers(Armed(chat_id), [ast EXCEPT !.ns = Del(next_step, chat_id)],
                              chat_id, from_user, text)
        ELSE RunRegistered(FirstMatch(text), ast, chat_id, from_user, text)

\* a message in a chat, kept as the last call with the handlers it was given to
MenuMessage(chat_id, from_user, text) ==
    LET ast == MenuHandled(chat_id, from_user, text)
    IN  /\ Cardinality(catalog) + Cardinality(promo_codes)
              < Cardinality(SeededDb.items) + Cardinality(SeededDb.promo_codes) + MaxAdded
        /\ admin_states' = ast.as
        /\ next_step' = ast.ns
        /\ catalog' = ast.catalog
        /\ promo_codes' = ast.promo_codes
        /\ result' = [NoResult EXCEPT
                        !.op = "message", !.text = text, !.from_user = from_user,
                        !.handlers = IF Armed(chat_id) # <<>> THEN Armed(chat_id)
                                     ELSE << FirstMatch(text) >>,
                        !.reply = ast.reply]
        /\ UNCHANGED <<now, orders, order_items, applied, rlVars,
                       users, feedback, profiles, user_states>>

MenuTexts == {"/add_item", "/export_orders", BTN_ADMIN_EXPORT, "BOOT-7", "38"}

InitMenu == InitBot

\* the accounts write in the group chat
NextMenu ==
    \E from_user \in Senders(GroupChat), text \in MenuTexts :
        MenuMessage(GroupChat, from_user, text)

SpecMenu == InitMenu /\ [][NextMenu]_vars

----------------------------------------------------------------------------
(* services/product_service.py: create_item and update_item *)

\* name is kept when it is not empty and name.strip() has two characters or more
NameKept(name) == name # None /\ name # "" /\ StrLen(Strip(name)) >= 2

\* create_item: the item returned, if any, and the table it leaves.  The
\* category is lowered and stored as given.
create_item(table, sku, name, price, sizes, category) ==
    IF ~validate_sku(sku) THEN [ok |-> FALSE, items |-> table]
    ELSE IF ~NameKept(name) THEN [ok |-> FALSE, items |-> table]
    ELSE IF ~validate_price(price) THEN [ok |-> FALSE, items |-> table]
    ELSE IF sizes = <<>> \/ validate_sizes(sizes) = None THEN [ok |-> FALSE, items |-> table]
    ELSE IF \E i \in table : i.sku = Upper(sku) THEN [ok |-> FALSE, items |-> table]
    ELSE [ok |-> TRUE,
          items |-> table \cup
             {ItemRow(NextId(table), Upper(sku), price, sizes,
                      IF category # None /\ category # "" THEN Lower(category) ELSE None)}]

\* update_item(db, item_id, **kwargs): kwargs.has are the keywords given.  A
\* SKU of a wrong format and a category outside the list are passed over,
\* and the name is taken whatever its length.  items is the table as
\* committed, session the Item object (if found) as the caller's session
\* holds it when the call returns: the assignments made before a return None
\* are neither committed nor rolled back.
update_item_kwargs(table, item_id, kwargs) ==
    IF ~\E i \in table : i.id = item_id THEN [ok |-> FALSE, items |-> table, session |-> {}]
    ELSE LET item == CHOOSE i \in table : i.id = item_id
             sku == Upper(kwargs.sku)
             new_sku == "sku" \in kwargs.has /\ validate_sku(sku)
             with_sku == IF new_sku THEN [item EXCEPT !.sku = sku] ELSE item
             with_price == IF "price" \in kwargs.has
                           THEN [with_sku EXCEPT !.price = kwargs.price] ELSE with_sku
             with_sizes == IF "sizes" \in kwargs.has
                           THEN [with_price EXCEPT !.sizes = kwargs.sizes] ELSE with_price
             with_category == IF "category" \in kwargs.has
                                 /\ kwargs.category \in {"men", "women", "kids", None}
                              THEN [with_sizes EXCEPT !.category = kwargs.category]
                              ELSE with_sizes
         IN  IF new_sku /\ \E i \in table : i.sku = sku /\ i.id # item_id
             THEN [ok |-> FALSE, items |-> table, session |-> {item}]
             ELSE IF "price" \in kwargs.has /\ ~validate_price(kwargs.price)
             THEN [ok |-> FALSE, items |-> table, session |-> {with_sku}]
             ELSE IF "sizes" \in kwargs.has /\ validate_sizes(kwargs.sizes) = None
             THEN [ok |-> FALSE, items |-> table, session |-> {with_price}]
             ELSE [ok |-> TRUE, items |-> (table \ {item}) \cup {with_category},
                   session |-> {with_category}]

\* the keywords of a call and their values
Kwargs(has, sku, name, price, sizes, category) ==
    [has |-> has, sku |-> sku, name |-> name, price |-> price, sizes |-> sizes,
     category |-> category, taken |-> FALSE]

\* a call of create_item, kept as the last call with what it was given and
\* whether the SKU was taken
CreateItem(sku, name, price, sizes, category) ==
    LET r == create_item(catalog, sku, name, price, sizes, category)
        has == {"sku", "name", "price", "sizes"}
                  \cup IF category = None THEN {} ELSE {"category"}
    IN  /\ Cardinality(catalog) < Cardinality(SeededDb.items) + MaxAdded
        /\ catalog' = r.items
        /\ result' = [NoResult EXCEPT
                        !.op = "create_item", !.ok = r.ok,
                        !.value = [Kwargs(has, sku, name, price, sizes, category) EXCEPT
                                     !.taken = \E i \in catalog : i.sku = Upper(sku)]]
        /\ UNCHANGED <<now, promo_codes, orders, order_items, applied, rlVars,
                       users, feedback, profiles, user_states, next_step, admin_states>>

\* a call of update_item
UpdateItemKwargs(item_id, kwargs) ==
    LET r == update_item_kwargs(catalog, item_id, kwargs)
    IN  /\ catalog' = r.items
        /\ result' = [NoResult EXCEPT
                        !.op = "update_item", !.ok = r.ok, !.order_id = item_id,
                        !.session = r.session,
                        !.value = [kwargs EXCEPT
                                     !.taken = \E i \in catalog :
                                                  i.sku = Upper(kwargs.sku) /\ i.id # item_id]]
        /\ UNCHANGED <<now, promo_codes, orders, order_items, applied, rlVars,
                       users, feedback, profiles, user_states, next_step, admin_states>>

\* the items created: one whose inputs are all valid, and the same with one
\* input changed
CreateInputs ==
    { Kwargs({}, "BOOT-7", "Boots", 199900, <<"38">>, "men"),
      Kwargs({}, "B7", "Boots", 199900, <<"38">>, "men"),
      Kwargs({}, "NIKE-AIR-001", "Boots", 199900, <<"38">>, "men"),
      Kwargs({}, "BOOT-7", "B", 199900, <<"38">>, "men"),
      Kwargs({}, "BOOT-7", "Boots", 0, <<"38">>, "men"),
      Kwargs({}, "BOOT-7", "Boots", 199900, <<"47">>, "men"),
      Kwargs({}, "BOOT-7", "Boots", 199900, <<>>, "men"),
      Kwargs({}, "BOOT-7", "Boots", 199900, <<"38">>, None),
      Kwargs({}, "BOOT-7", "Boots", 199900, <<"38">>, "sandals") }

\* the updates: one keyword at a time, valid and not, and two keywords of
\* which the first is valid and the second is not
UpdateInputs ==
    { Kwargs({"sku"}, "B7", None, Null, <<>>, None),
      Kwargs({"sku"}, "NIKE-AF-003", None, Null, <<>>, None),
      Kwargs({"sku"}, "boot-7", None, Null, <<>>, None),
      Kwargs({"name"}, "", "B", Null, <<>>, None),
      Kwargs({"price"}, "", None, 0, <<>>, None),
      Kwargs({"price"}, "", None, 299900, <<>>, None),
      Kwargs({"sizes"}, "", None, Null, <<"47">>, None),
      Kwargs({"sizes"}, "", None, Null, <<"38", "39">>, None),
      Kwargs({"category"}, "", None, Null, <<>>, "sandals"),
      Kwargs({"category"}, "", None, Null, <<>>, "kids"),
      Kwargs({"sku", "price"}, "boot-7", None, 0, <<>>, None),
      Kwargs({"price", "sizes"}, "", None, 299900, <<"47">>, None) }

ProductItemIds == {1, 27, 28}

InitProduct == InitBot

NextProduct ==
    \/ \E k \in CreateInputs : CreateItem(k.sku, k.name, k.price, k.sizes, k.category)
    \/ \E id \in ProductItemIds, k \in UpdateInputs : UpdateItemKwargs(id, k)

SpecProduct == InitProduct /\ [][NextProduct]_vars

----------------------------------------------------------------------------
(* utils/rate_limiter.py: clear_old_data *)

HOUR == 3600

\* clear_old_data(older_than_hours) at current_time: the number it returns
\* and the dicts it leaves.  The first loop counts the accounts left without
\* a timestamp, the second the accounts whose ban is over.
clear_old_data(reqs, bs, older_than_hours, current_time) ==
    LET cutoff == current_time - older_than_hours * HOUR
        purged == {u \in DOMAIN reqs : Keep(reqs[u], cutoff) = <<>>}
        expired == {u \in DOMAIN bs : current_time > bs[u]}
    IN  [cleared_users |-> Cardinality(purged) + Cardinality(expired),
         requests |-> [u \in DOMAIN reqs \ purged |-> Keep(reqs[u], cutoff)],
         bans |-> [u \in DOMAIN bs \ expired |-> bs[u]]]

\* a call of clear_old_data
ClearOldData(older_than_hours) ==
    LET r == clear_old_data(requests, bans, older_than_hours, rl_now)
    IN  /\ requests' = r.requests
        /\ bans' = r.bans
        /\ result' = [NoResult EXCEPT !.op = "clear_old_data", !.value = r.cleared_users,
                                      !.at = rl_now]
        /\ UNCHANGED <<rl_now, rl_cfg, rl_log, rl_last, now, promo_codes, orders,
                       order_items, applied, botVars>>

\* rate_limit_decorator.wrapper on a request of the account, the histories
\* left alone: is_allowed, then on success record_request and the handler
Request(user_id) ==
    LET r == is_allowed(requests, bans, rl_cfg, user_id, rl_now)
    IN  /\ requests' = IF r.allowed THEN record_request(r.requests, rl_cfg, user_id, rl_now)
                       ELSE r.requests
        /\ bans' = r.bans
        /\ UNCHANGED <<rl_now, rl_cfg, rl_log, rl_last, shopVars, botVars>>

\* the clock of the limiter is followed until MaxClearTime
MaxClearTime == 3600

\* a limiter with a small limit, followed for two accounts over an hour
ClearLimiter ==
    [max_requests |-> MaxSmallRequests, window_seconds |-> 60, ban_duration |-> 300,
     accounts |-> {"u1", "u2"}, horizon |-> MaxClearTime]

ClearSteps == {HOUR}
ClearHours == {0, 1, 24}

InitClear == InitShopIdle /\ RateLimiterInit(ClearLimiter)

NextClear ==
    \/ \E d \in ClearSteps : RlTick(d)
    \/ \E u \in ClearLimiter.accounts : Request(u)
    \/ \E h \in ClearHours : ClearOldData(h)

SpecClear == InitClear /\ [][NextClear]_vars

----------------------------------------------------------------------------
(* utils/keyboards.py and the callback handlers: callback data *)

\* a Python str as the sequence of its characters; the literals of
\* keyboards.py and of the handler filters, the statuses, the delivery
\* methods and the size labels of the catalog
Chars(s) ==
    CASE s = "item:" -> <<"i", "t", "e", "m", ":">>
      [] s = "catalog_page:" -> <<"c", "a", "t", "a", "l", "o", "g", "_", "p", "a", "g", "e", ":">>
      [] s = "order:" -> <<"o", "r", "d", "e", "r", ":">>
      [] s = "back_to_catalog" -> <<"b", "a", "c", "k", "_", "t", "o", "_", "c", "a", "t", "a", "l", "o", "g">>
      [] s = "size:" -> <<"s", "i", "z", "e", ":">>
      [] s = "cancel_order" -> <<"c", "a", "n", "c", "e", "l", "_", "o", "r", "d", "e", "r">>
      [] s = "delivery:" -> <<"d", "e", "l", "i", "v", "e", "r", "y", ":">>
      [] s = "delivery:pickup" -> <<"d", "e", "l", "i", "v", "e", "r", "y", ":", "p", "i", "c", "k", "u", "p">>
      [] s = "delivery:delivery" -> <<"d", "e", "l", "i", "v", "e", "r", "y", ":", "d", "e", "l", "i", "v", "e", "r", "y">>
      [] s = "confirm_order" -> <<"c", "o", "n", "f", "i", "r", "m", "_", "o", "r", "d", "e", "r">>
      [] s = "order_status:" -> <<"o", "r", "d", "e", "r", "_", "s", "t", "a", "t", "u", "s", ":">>
      [] s = "remove_item:" -> <<"r", "e", "m", "o", "v", "e", "_", "i", "t", "e", "m", ":">>
      [] s = "cancel_remove" -> <<"c", "a", "n", "c", "e", "l", "_", "r", "e", "m", "o", "v", "e">>
      [] s = "remove_item_yes:" -> <<"r", "e", "m", "o", "v", "e", "_", "i", "t", "e", "m", "_", "y", "e", "s", ":">>
      [] s = "remove_item_no:" -> <<"r", "e", "m", "o", "v", "e", "_", "i", "t", "e", "m", "_", "n", "o", ":">>
      [] s = "remove_item" -> <<"r", "e", "m", "o", "v", "e", "_", "i", "t", "e", "m">>
      [] s = "_yes:" -> <<"_", "y", "e", "s", ":">>
      [] s = "_no:" -> <<"_", "n", "o", ":">>
      [] s = ":" -> <<":">>
      [] s = "pickup" -> <<"p", "i", "c", "k", "u", "p">>
      [] s = "delivery" -> <<"d", "e", "l", "i", "v", "e", "r", "y">>
      [] s = "pending" -> <<"p", "e", "n", "d", "i", "n", "g">>
      [] s = "confirmed" -> <<"c", "o", "n", "f", "i", "r", "m", "e", "d">>
      [] s = "cancelled" -> <<"c", "a", "n", "c", "e", "l", "l", "e", "d">>
      [] s = "shipped" -> <<"s", "h", "i", "p", "p", "e", "d">>
      [] s = "delivered" -> <<"d", "e", "l", "i", "v", "e", "r", "e", "d">>
      [] s = "25" -> <<"2", "5">>
      [] s = "26" -> <<"2", "6">>
      [] s = "27" -> <<"2", "7">>
      [] s = "28" -> <<"2", "8">>
      [] s = "29" -> <<"2", "9">>
      [] s = "30" -> <<"3", "0">>
      [] s = "31" -> <<"3", "1">>
      [] s = "32" -> <<"3", "2">>
      [] s = "33" -> <<"3", "3">>
      [] s = "34" -> <<"3", "4">>
      [] s = "35" -> <<"3", "5">>
      [] s = "36" -> <<"3", "6">>
      [] s = "37" -> <<"3", "7">>
      [] s = "38" -> <<"3", "8">>
      [] s = "39" -> <<"3", "9">>
      [] s = "40" -> <<"4", "0">>
      [] s = "41" -> <<"4", "1">>
      [] s = "42" -> <<"4", "2">>
      [] s = "43" -> <<"4", "3">>
      [] s = "44" -> <<"4", "4">>
      [] s = "45" -> <<"4", "5">>
      [] s = "46" -> <<"4", "6">>

Digits == <<"0", "1", "2", "3", "4", "5", "6", "7", "8", "9">>

RECURSIVE StrOfInt(_)
\* str(n), the f-string conversion of an integer
StrOfInt(n) ==
    IF n < 0 THEN <<"-">> \o StrOfInt(0 - n)
    ELSE IF n < 10 THEN <<Digits[n + 1]>>
    ELSE StrOfInt(n \div 10) \o <<Digits[(n % 10) + 1]>>

DigitOf(c) == IF \E d \in 1..10 : Digits[d] = c THEN (CHOOSE d \in 1..10 : Digits[d] = c) - 1 ELSE Null

RECURSIVE DigitsValue(_)
DigitsValue(cs) ==
    IF cs = <<>> THEN 0 ELSE DigitsValue(SubSeq(cs, 1, Len(cs) - 1)) * 10 + DigitOf(cs[Len(cs)])

\* int(text): ok is FALSE when int() raises ValueError
IntOfChars(cs) ==
    LET neg == cs # <<>> /\ cs[1] = "-"
        ds  == IF neg THEN Tail(cs) ELSE cs
    IN  IF ds = <<>> \/ \E k \in 1..Len(ds) : DigitOf(ds[k]) = Null
        THEN [ok |-> FALSE, value |-> 0]
        ELSE [ok |-> TRUE, value |-> IF neg THEN 0 - DigitsValue(ds) ELSE DigitsValue(ds)]

RECURSIVE Split(_, _)
\* data.split(sep) for a separator of one character
Split(cs, sep) ==
    IF \A k \in 1..Len(cs) : cs[k] # sep THEN <<cs>>
    ELSE LET k == CHOOSE i \in 1..Len(cs) : cs[i] = sep /\ \A j \in 1..(i - 1) : cs[j] # sep
         IN  <<SubSeq(cs, 1, k - 1)>> \o Split(SubSeq(cs, k + 1, Len(cs)), sep)

\* a prefix test that forgets the last character of the prefix
startswith_loose(data, prefix) ==
    /\ Len(data) >= Len(prefix) - 1
    /\ SubSeq(data, 1, Len(prefix) - 1) = SubSeq(prefix, 1, Len(prefix) - 1)

\* data.startswith(prefix)
startswith(data, prefix) ==
    /\ Len(data) >= Len(prefix)
    /\ SubSeq(data, 1, Len(prefix)) = prefix

\* a button: its callback data, and what the builder formatted into it (the
\* action tag and the argument values, an integer or a str)
Button(data, tag, args) == [data |-> data, tag |-> tag, args |-> args]

RECURSIVE SortedIds(_)
\* db.query(Item).all(): the ids of the rows, in the order of the primary key
SortedIds(table) ==
    IF table = {} THEN <<>>
    ELSE LET i == CHOOSE x \in table : \A y \in table : x.id <= y.id
         IN  <<i.id>> \o SortedIds(table \ {i})

ITEMS_PER_PAGE == 5

\* keyboards.py create_catalog_keyboard(items, page, items_per_page)
create_catalog_keyboard(item_ids, page, items_per_page) ==
    LET start_idx == page * items_per_page
        end_idx   == start_idx + items_per_page
        last      == IF end_idx < Len(item_ids) THEN end_idx ELSE Len(item_ids)
        page_items == SubSeq(item_ids, start_idx + 1, last)
    IN  [k \in 1..Len(page_items) |->
            Button(Chars("item:") \o StrOfInt(page_items[k]), "item", <<page_items[k]>>)]
        \o (IF page > 0
            THEN <<Button(Chars("catalog_page:") \o StrOfInt(page - 1), "catalog_page", <<page - 1>>)>>
            ELSE <<>>)
        \o (IF end_idx < Len(item_ids)
            THEN <<Button(Chars("catalog_page:") \o StrOfInt(page + 1), "catalog_page", <<page + 1>>)>>
            ELSE <<>>)

\* keyboards.py create_product_keyboard(item_id)
create_product_keyboard(item_id) ==
    << Button(Chars("order:") \o StrOfInt(item_id), "order", <<item_id>>),
       Button(Chars("back_to_catalog"), "back_to_catalog", <<>>) >>

\* keyboards.py create_size_keyboard(sizes, item_id)
create_size_keyboard(sizes, item_id) ==
    [k \in 1..Len(sizes) |->
        Button(Chars("size:") \o StrOfInt(item_id) \o Chars(":") \o Chars(sizes[k]),
               "size", <<item_id, Chars(sizes[k])>>)]
    \o <<Button(Chars("cancel_order"), "cancel_order", <<>>)>>

\* keyboards.py create_delivery_keyboard()
create_delivery_keyboard ==
    << Button(Chars("delivery:pickup"), "delivery", <<Chars("pickup")>>),
       Button(Chars("delivery:delivery"), "delivery", <<Chars("delivery")>>) >>

\* keyboards.py create_confirmation_keyboard()
create_confirmation_keyboard ==
    << Button(Chars("confirm_order"), "confirm_order", <<>>),
       Button(Chars("cancel_order"), "cancel_order", <<>>) >>

\* the button order_status:<order_id>:<new_status>
StatusButton(order_id, new_status) ==
    Button(Chars("order_status:") \o StrOfInt(order_id) \o Chars(":") \o Chars(new_status),
           "order_status", <<order_id, Chars(new_status)>>)

\* keyboards.py create_order_actions_keyboard(order_id, current_status)
order_actions_keyboard(order_id, current_status) ==
    CASE current_status = "pending" ->
            <<StatusButton(order_id, "confirmed"), StatusButton(order_id, "cancelled")>>
      [] current_status = "confirmed" ->
            <<StatusButton(order_id, "shipped"), StatusButton(order_id, "cancelled")>>
      [] OTHER -> <<>>

\* keyboards.py create_remove_item_keyboard(items)
create_remove_item_keyboard(item_ids) ==
    [k \in 1..Len(item_ids) |->
        Button(Chars("remove_item:") \o StrOfInt(item_ids[k]), "remove_item", <<item_ids[k]>>)]
    \o <<Button(Chars("cancel_remove"), "cancel_remove", <<>>)>>

\* keyboards.py create_yes_no_keyboard(action, data); admin.py line 268 calls
\* it with "remove_item" and str(item_id)
create_yes_no_keyboard(action, item_id) ==
    << Button(Chars(action) \o Chars("_yes:") \o StrOfInt(item_id), "remove_item_yes", <<item_id>>),
       Button(Chars(action) \o Chars("_no:") \o StrOfInt(item_id), "remove_item_no", <<item_id>>) >>

\* a filter lambda call: call.data.startswith(pat)
OnPrefix(name, pat, calls) == [name |-> name, exact |-> FALSE, pat |-> Chars(pat), calls |-> calls]
\* a filter lambda call: call.data == pat
OnData(name, pat, calls) == [name |-> name, exact |-> TRUE, pat |-> Chars(pat), calls |-> calls]

\* bot.py register_handlers: the callback handlers in the order registered
\* (catalog, orders, admin)
CallbackHandlers ==
    << OnPrefix("product_details_wrapper", "item:", "show_product_details"),
       OnData("back_to_catalog_wrapper", "back_to_catalog", "handle_back_to_catalog"),
       OnPrefix("catalog_page_wrapper", "catalog_page:", "handle_catalog_pagination"),
       OnPrefix("start_order_wrapper", "order:", "start_order_flow"),
       OnPrefix("size_selection_wrapper", "size:", "handle_size_selection"),
       OnPrefix("delivery_selection_wrapper", "delivery:", "handle_delivery_selection"),
       OnData("confirm_order_wrapper", "confirm_order", "handle_order_confirmation"),
       OnData("cancel_order_wrapper", "cancel_order", "handle_order_cancellation"),
       OnPrefix("remove_item_selection_wrapper", "remove_item:", "handle_remove_item_selection"),
       OnPrefix("confirm_remove_wrapper", "remove_item_yes:", "confirm_remove_item"),
       OnPrefix("cancel_remove_wrapper", "remove_item_no:", "cancel_remove_item"),
       OnData("cancel_remove_simple_wrapper", "cancel_remove", "cancel_remove_item"),
       OnPrefix("order_status_wrapper", "order_status:", "handle_order_status_update") >>

\* the filter of a callback handler, applied to the callback data
Accepts(h, data) == IF h.exact THEN data = h.pat ELSE startswith(data, h.pat)

\* the handlers whose filter accepts the data, in the order registered
Accepting(data) == SelectSeq(CallbackHandlers, LAMBDA h : Accepts(h, data))

\* the first lines of a callback handler: what it reads from call.data;
\* raised when the unpacking, the indexing or int() raises
ParseCallback(calls, data) ==
    LET parts == Split(data, ":")
        Raised == [raised |-> TRUE, args |-> <<>>]
    IN  CASE calls \in {"show_product_details", "handle_catalog_pagination", "start_order_flow",
                        "handle_remove_item_selection", "confirm_remove_item"} ->
                IF Len(parts) < 2 \/ ~IntOfChars(parts[2]).ok THEN Raised
                ELSE [raised |-> FALSE, args |-> <<IntOfChars(parts[2]).value>>]
          [] calls \in {"handle_size_selection", "handle_order_status_update"} ->
                IF Len(parts) # 3 \/ ~IntOfChars(parts[2]).ok THEN Raised
                ELSE [raised |-> FALSE, args |-> <<IntOfChars(parts[2]).value, parts[3]>>]
          [] calls = "handle_delivery_selection" ->
                IF Len(parts) < 2 THEN Raised
                ELSE [raised |-> FALSE, args |-> <<parts[2]>>]
          [] OTHER -> [raised |-> FALSE, args |-> <<>>]

\* a handler sends a keyboard
SendKeyboard(op, buttons) ==
    /\ result' = [NoResult EXCEPT !.op = op, !.buttons = buttons]
    /\ UNCHANGED <<now, promo_codes, orders, order_items, applied>>
    /\ UNCHANGED rlVars
    /\ UNCHANGED botVars

\* catalog.py show_catalog (page 0) and handle_catalog_pagination
HandleCatalogPagination(page) ==
    /\ catalog # {}
    /\ SendKeyboard("catalog", create_catalog_keyboard(SortedIds(catalog), page, ITEMS_PER_PAGE))

\* catalog.py show_product_details
ShowProductDetails(item_id) ==
    /\ ItemById(item_id) # {}
    /\ SendKeyboard("product", create_product_keyboard(item_id))

\* orders.py start_order_flow, the size keyboard of the item
ShowSizes(item_id) ==
    /\ ItemById(item_id) # {}
    /\ SendKeyboard("sizes", create_size_keyboard((CHOOSE i \in ItemById(item_id) : TRUE).sizes, item_id))

\* orders.py process_quantity: the delivery keyboard
ShowDelivery == SendKeyboard("delivery", create_delivery_keyboard)

\* orders.py show_order_summary: the confirmation keyboard
ShowConfirmation == SendKeyboard("confirmation", create_confirmation_keyboard)

\* admin.py show_orders: the keyboard under one order
ShowOrderActions(order_id, current_status) ==
    SendKeyboard("order_actions", order_actions_keyboard(order_id, current_status))

\* admin.py start_remove_item
StartRemoveItem ==
    /\ catalog # {}
    /\ SendKeyboard("remove_item", create_remove_item_keyboard(SortedIds(catalog)))

\* admin.py handle_remove_item_selection
HandleRemoveItemSelection(item_id) ==
    SendKeyboard("yes_no", create_yes_no_keyboard("remove_item", item_id))

\* the k-th button of the last keyboard is tapped: the dispatcher tries the
\* filters, the first accepting handler reads the data
Tap(k) ==
    /\ k \in 1..Len(result.buttons)
    /\ LET b   == result.buttons[k]
           acc == Accepting(b.data)
       IN  result' = [result EXCEPT
               !.op = "tap", !.tapped = k,
               !.accepted = [j \in 1..Len(acc) |-> acc[j].calls],
               !.parsed = IF acc = <<>> THEN [raised |-> FALSE, args |-> <<>>]
                          ELSE ParseCallback(acc[1].calls, b.data)]
    /\ UNCHANGED <<now, promo_codes, orders, order_items, applied>>
    /\ UNCHANGED rlVars
    /\ UNCHANGED botVars

\* the pages the catalog has
Pages == 0..((Cardinality(catalog) - 1) \div ITEMS_PER_PAGE)
KeyOrderIds == {1, 12}

InitKeys == InitBot

NextKeys ==
    \/ \E page \in Pages : HandleCatalogPagination(page)
    \/ \E i \in catalog : ShowProductDetails(i.id)
    \/ \E i \in catalog : ShowSizes(i.id)
    \/ ShowDelivery
    \/ ShowConfirmation
    \/ \E order_id \in KeyOrderIds, s \in valid_statuses : ShowOrderActions(order_id, s)
    \/ StartRemoveItem
    \/ \E i \in catalog : HandleRemoveItemSelection(i.id)
    \/ \E k \in 1..Len(result.buttons) : Tap(k)

SpecKeys == InitKeys /\ [][NextKeys]_vars


----------------------------------------------------------------------------
(* Several accounts in one chat: the next-step handlers belong to the chat,
   the conversation states to the accounts *)

OrderStepHandlers == {"process_quantity", "process_address", "process_phone", "process_feedback"}

\* what a handler of the order conversation armed goes to the list of the
\* chat of the message (process_quantity and the others are written for a
\* private chat, whose id is the id of its account)
ArmedInChat(r, ns, chat_id, user_id) ==
    LET armed == IF user_id \in DOMAIN r.ns THEN r.ns[user_id] ELSE <<>>
    IN  [r EXCEPT !.ns = IF armed = <<>> THEN ns
                         ELSE Put(ns, chat_id,
                                  (IF chat_id \in DOMAIN ns THEN ns[chat_id] ELSE <<>>) \o armed)]

\* one armed handler runs on a message of the chat, for the sender
RunInChat(handler, st, chat_id, user_id, text) ==
    IF handler \in OrderStepHandlers
    THEN ArmedInChat(RunHandler(handler, [st EXCEPT !.ns = EmptyDict], user_id, text),
                     st.ns, chat_id, user_id)
    ELSE RunAdminHandler(handler, st, chat_id, user_id, text)

RECURSIVE RunAllInChat(_, _, _, _, _)
RunAllInChat(handlers, st, chat_id, user_id, text) ==
    IF handlers = <<>> THEN st
    ELSE RunAllInChat(Tail(handlers), RunInChat(Head(handlers), st, chat_id, user_id, text),
                      chat_id, user_id, text)

\* a message in a chat: the handlers armed for the chat are taken off and run
\* on it for its sender; with none armed it goes to the message handlers
ChatHandled(chat_id, from_user, text) ==
    LET st == [us |-> user_states, ns |-> next_step, users |-> users, feedback |-> feedback,
               api |-> TRUE, raised |-> FALSE, reply |-> None,
               as |-> admin_states, catalog |-> catalog, promo_codes |-> promo_codes]
    IN  IF Armed(chat_id) # <<>>
        THEN RunAllInChat(Armed(chat_id), [st EXCEPT !.ns = Del(next_step, chat_id)],
                          chat_id, from_user, text)
        ELSE RunAdminCommand(st, chat_id, from_user, text)

\* the handlers armed for one chat at a time
MaxChatArmed == 1

ChatMessage(chat_id, from_user, text) ==
    LET st == ChatHandled(chat_id, from_user, text)
    IN  /\ \A c \in DOMAIN st.ns : Len(st.ns[c]) <= MaxChatArmed
        /\ user_states' = st.us
        /\ admin_states' = st.as
        /\ next_step' = st.ns
        /\ users' = st.users
        /\ feedback' = st.feedback
        /\ catalog' = st.catalog
        /\ promo_codes' = st.promo_codes
        /\ UNCHANGED <<now, orders, order_items, result, applied, profiles, rlVars>>

\* callback size:<item_id>:<size> on a message of the chat
ChatSizeSelection(chat_id, from_user, item_id, size) ==
    /\ Len(Armed(chat_id)) < MaxChatArmed
    /\ IF ItemById(item_id) = {}
       THEN UNCHANGED <<user_states, next_step>>
       ELSE LET item == CHOOSE i \in ItemById(item_id) : TRUE
                old == IF from_user \in DOMAIN user_states THEN user_states[from_user]
                       ELSE NoState
            IN  /\ user_states' = Put(user_states, from_user,
                       [old EXCEPT !.item_id = item_id, !.size = size,
                                   !.step = "select_quantity", !.price = item.price])
                /\ next_step' = Arm(next_step, chat_id, "process_quantity")
    /\ UNCHANGED <<catalog, users, feedback, profiles, admin_states, shopVars, rlVars>>

\* callback delivery:<method> on a message of the chat
ChatDeliverySelection(chat_id, from_user, delivery_method) ==
    /\ Len(Armed(chat_id)) < MaxChatArmed
    /\ IF from_user \notin DOMAIN user_states
       THEN UNCHANGED <<user_states, next_step>>
       ELSE /\ user_states' = [user_states EXCEPT
                  ![from_user].delivery_method = delivery_method,
                  ![from_user].step = IF delivery_method = "delivery" THEN "enter_address"
                                      ELSE "enter_phone"]
            /\ next_step' = Arm(next_step, chat_id,
                  IF delivery_method = "delivery" THEN "process_address" ELSE "process_phone")
    /\ UNCHANGED <<catalog, users, feedback, profiles, admin_states, shopVars, rlVars>>

\* a customer and the administrator write in the group chat, and each of
\* them may order
Members == Customers \cup ActingAdmins
ChatTexts == {"/add_item", " 2 "}

\* the updates an account sends in the group chat
ChatUpdate(a) ==
    \/ \E text \in ChatTexts : ChatMessage(GroupChat, a, text)
    \/ \E id \in ItemInputs, size \in SizeInputs : ChatSizeSelection(GroupChat, a, id, size)
    \/ ChatDeliverySelection(GroupChat, a, "delivery")
    \/ HandleOrderCancellation(a)

InitChat == InitBot

NextChat == \E a \in Members : ChatUpdate(a)

SpecChat == InitChat /\ [][NextChat]_vars

----------------------------------------------------------------------------
(* Orders with promo codes of every origin: the seeder, the Promo Service and
   the admin conversation *)

DiscountInputs == {0, 100, 101}
DiscountCodes == {"save10", "BOOT-7", "FREESHIP"}
DiscountTexts == {"/promo_add", "BOOT-7", "100", "101"}

InitDiscount == InitBot

\* the orders persisted
MaxDiscountOrders == 1

NextDiscount ==
    \/ \E d \in DiscountInputs : CreatePromoCode("save10", d, Null, Null, TRUE)
    \/ \E d \in DiscountInputs : UpdatePromoCode("save10", d)
    \/ \E a \in ActingAdmins, text \in DiscountTexts : AdminMessage(a, a, text)
    \/ \E i \in OrderInputs, code \in DiscountCodes :
          /\ Cardinality(orders) < MaxDiscountOrders
          /\ CreateOrder(1, i.items, i.delivery_method, i.address, "+380501234567", code)

SpecDiscount == InitDiscount /\ [][NextDiscount]_vars

----------------------------------------------------------------------------
(* The unique columns under several administrators, the services and seeding *)

\* a message of an administrator in its private chat
PrivateMessage(from_user, text) ==
    LET ast == AdminHandled(from_user, from_user, text)
    IN  /\ admin_states' = ast.as
        /\ next_step' = ast.ns
        /\ catalog' = ast.catalog
        /\ promo_codes' = ast.promo_codes
        /\ result' = [NoResult EXCEPT !.op = "message", !.from_user = from_user,
                                      !.handlers = Armed(from_user),
                                      !.reply = ast.reply]
        /\ UNCHANGED <<now, orders, order_items, applied, rlVars,
                       users, feedback, profiles, user_states>>

\* what an administrator sends: a command when no answer is awaited, else an
\* answer the awaited step accepts
UniqueTexts(handlers) ==
    IF handlers = <<>> THEN {"/add_item", "/promo_add"}
    ELSE IF Head(handlers) \in {"process_item_price", "process_item_sizes",
                                "process_promo_discount"} THEN {"38"}
    ELSE {"BOOT-7"}

\* the last item of the seed list, removed and seeded again
UniqueRemoveIds == {25}

InitUnique == InitBot

NextUnique ==
    \/ \E a \in ADMIN_IDS : \E text \in UniqueTexts(Armed(a)) : PrivateMessage(a, text)
    \/ CreateItem("boot-7", "Boots", 199900, <<"38">>, "men")
    \/ UpdateItemKwargs(1, Kwargs({"sku"}, "boot-7", None, Null, <<>>, None))
    \/ CreatePromoCode("boot-7", 10, Null, Null, TRUE)
    \/ \E id \in UniqueRemoveIds : DeleteItem(id)
    \/ SeedExtensiveData
    \/ SeedDatabaseIfEmpty

SpecUnique == InitUnique /\ [][NextUnique]_vars

----------------------------------------------------------------------------
(* Properties of the Order Service and of PromoCode *)

\* Validity as the data model defines it: active, not past its expiry, and,
\* when a usage limit is set, used fewer times than the limit
Validity(promo, t) ==
    /\ promo.is_active
    /\ (promo.valid_until = Null \/ t <= promo.valid_until)
    /\ (promo.usage_limit = Null \/ promo.usage_count < promo.usage_limit)

Supplied(promo_code) == promo_code # None /\ promo_code # ""

ValidSupplied(promo_code, table, t) ==
    /\ Supplied(promo_code)
    /\ \E p \in PromoByCode(table, Upper(promo_code)) : Validity(p, t)

LineTotal(items) == SumSeq([i \in 1..Len(items) |-> items[i].price * items[i].quantity])

\* C1: calculate_order_total returns subtotal = sum of price x quantity,
\* delivery = 10 000 minor units exactly for 'delivery', discount =
\* subtotal x percent / 100 exactly when the supplied code exists and is
\* valid (0 for a nonexistent, inactive, expired or exhausted code) and
\* total = subtotal + delivery - discount, each amount rounded to the minor
\* unit as the service returns it.
C1_TotalsAsClaimed ==
    result.op = "calculate_order_total" =>
        LET S == LineTotal(result.items)
            D == IF result.delivery_method = "delivery" THEN DELIVERY_PRICE ELSE 0
            pct == IF ValidSupplied(result.promo_code, promo_codes, result.at)
                   THEN (CHOOSE p \in PromoByCode(promo_codes, Upper(result.promo_code)) : TRUE).discount_percent
                   ELSE 0
        IN  /\ result.totals.subtotal = S
            /\ result.totals.delivery = D
            /\ result.totals.discount \in Round2(S * pct)
            /\ result.totals.total \in Round2((S + D) * 100 - S * pct)

\* C2: a successful create_order adds exactly one Order row, 'pending', and
\* exactly len(items) OrderItem rows of that order, raises the usage count of
\* a valid supplied promo code by exactly 1, and changes no other row.
CreatedOrder == result' # result /\ result'.op = "create_order" /\ result'.ok

C2_CreateOrderRows ==
    [][CreatedOrder =>
        /\ \E o \in orders' :
              /\ o \notin orders /\ orders' = orders \cup {o}
              /\ o.status = "pending" /\ o.id = result'.order_id
              /\ order_items \subseteq order_items'
              /\ Cardinality(order_items' \ order_items) = Len(result'.items)
              /\ \A oi \in order_items' \ order_items : oi.order_id = o.id
        /\ promo_codes' =
              IF ValidSupplied(result'.promo_code, promo_codes, now)
              THEN { IF p.code = Upper(result'.promo_code)
                     THEN [p EXCEPT !.usage_count = @ + 1] ELSE p : p \in promo_codes }
              ELSE promo_codes
      ]_vars

\* C3: is_valid() is true exactly when the code is active, has no expiry or
\* now <= expiry, and has no usage limit or usage count < usage limit (a
\* limit of zero included).
C3_IsValidAsClaimed ==
    \A p \in promo_codes : is_valid(p, now) <=> Validity(p, now)

\* C4: each promo code's usage count equals the number of persisted orders
\* to which its discount was applied; an order created with a nonexistent,
\* inactive, expired or exhausted code leaves every usage count unchanged.
C4_UsageCountIsApplied ==
    \A p \in promo_codes : p.usage_count = applied[p.code]

----------------------------------------------------------------------------
(* Properties of the rate limiter *)

\* C5: with the defaults (20 requests, 60 s, 300 s), requests checked and
\* recorded by the decorator: the first 20 requests of an account inside one
\* window are allowed; the 21st inside that window is rejected and imposes a
\* ban until 300 s later; until 300 s after the rejection that imposed a ban
\* every request of the account is rejected.
C5_DefaultLimiter ==
    rl_cfg = DefaultLimiter =>
      \A u \in rl_cfg.accounts : rl_last.user = u =>
        LET log == rl_log[u]
            inWindow == rl_last.at - log.first < 60
        IN  /\ (log.hits >= 1 /\ log.hits <= 20 /\ inWindow) => rl_last.allowed
            /\ (log.hits = 21 /\ inWindow) =>
                  /\ ~rl_last.allowed
                  /\ u \in DOMAIN bans /\ bans[u] = rl_last.at + 300
            /\ (log.ban_at # Null /\ rl_last.at < log.ban_at + 300) => ~rl_last.allowed

\* a request rejected later during the ban that the 21st request imposed
C5_Witness ==
    /\ rl_cfg = DefaultLimiter
    /\ rl_last.user = "u1" /\ ~rl_last.allowed
    /\ rl_log["u1"].ban_at # Null
    /\ rl_last.at >= rl_log["u1"].ban_at + 60
    /\ rl_last.at < rl_log["u1"].ban_at + 300

\* C6: for every account and every instant t, at most max_requests handler
\* invocations were let through with a timestamp in (t - window_seconds, t]
\* (passed holds the invocations of the window that ends at the latest one,
\* where the number is largest).
C6_WindowBound ==
    \A u \in rl_cfg.accounts : Len(rl_log[u].passed) <= rl_cfg.max_requests

\* two accounts have each used up their window, and one was then rejected
C6_Witness ==
    /\ rl_cfg = SmallLimiter
    /\ \A u \in rl_cfg.accounts : Len(rl_log[u].passed) = rl_cfg.max_requests
    /\ ~rl_last.allowed

----------------------------------------------------------------------------
(* Properties of the seeding routine *)

SeedRun == SeedExtensiveData \/ SeedDatabaseIfEmpty
SeedSkus == {SeedItems[k].sku : k \in 1..Len(SeedItems)}
SeedCodes == {SeedPromos[k].code : k \in 1..Len(SeedPromos)}

\* the database holds every seed product and every seed promo code
Seeded ==
    /\ \A s \in SeedSkus : \E i \in catalog : i.sku = s
    /\ \A c \in SeedCodes : \E p \in promo_codes : p.code = c

\* C7: the seeding routine is idempotent.  A run on an empty database inserts
\* every seed product and every seed promo code exactly once; a run on a
\* database that holds them all inserts no row and reports (0, 0); no run
\* fails, and no run leaves two items with one SKU or two promo codes with
\* one code.
C7_SeedIdempotent ==
    [][SeedRun =>
         /\ result'.ok
         /\ (catalog = {} /\ promo_codes = {} =>
                /\ result'.added = <<Len(SeedItems), Len(SeedPromos)>>
                /\ Cardinality(catalog') = Len(SeedItems)
                /\ Cardinality(promo_codes') = Len(SeedPromos)
                /\ \A s \in SeedSkus : Cardinality({i \in catalog' : i.sku = s}) = 1
                /\ \A c \in SeedCodes : Cardinality({p \in promo_codes' : p.code = c}) = 1)
         /\ (Seeded =>
                /\ catalog' = catalog
                /\ promo_codes' = promo_codes
                /\ result'.added = <<0, 0>>)
         /\ UniqueSku(catalog')
         /\ UniqueCode(promo_codes')
    ]_vars

\* a later start of the bot has run the seeding on the seeded database
C7_Witness ==
    /\ result.op = "seed_database_if_empty:missing"
    /\ result.added = <<0, 0>>
    /\ result.at > 0
    /\ Cardinality(catalog) = Len(SeedItems)
    /\ Cardinality(promo_codes) = Len(SeedPromos)

----------------------------------------------------------------------------
(* Properties of the handlers *)

NonAdmins == Accounts \ ADMIN_IDS

\* C8: no update sent by an account outside the admin list changes the
\* status of an order, whatever message or callback data it sends.
C8_NonAdminKeepsStatus ==
    [][\A a \in NonAdmins : UpdateFrom(a) =>
          \A o \in orders : \E o2 \in orders' : o2.id = o.id /\ o2.status = o.status]_vars

\* C9: no update sent by an account outside the admin list removes an item
\* from the catalog, whatever message or callback data it sends.
C9_NonAdminKeepsCatalog ==
    [][\A a \in NonAdmins : UpdateFrom(a) =>
          \A i \in catalog : \E j \in catalog' : j.id = i.id]_vars

\* the step recorded for an account, None without a conversation
StepOf(states, a) == IF a \in DOMAIN states THEN states[a].step ELSE None

\* the step of the account stays, or the conversation ends, or a new order
\* starts at select_size, or the step moves to its successor in the flow
StepAdvances(a) ==
    LET s  == StepOf(user_states, a)
        s2 == StepOf(user_states', a)
    IN  \/ s2 = s
        \/ s2 = None
        \/ s2 = "select_size" /\ \E id \in ItemInputs : StartOrderFlow(a, id)
        \/ s = "select_size" /\ s2 = "select_quantity"
        \/ s = "select_quantity" /\ s2 = "select_delivery"
        \/ s = "select_delivery" /\ s2 = "enter_address"
              /\ user_states'[a].delivery_method = "delivery"
        \/ s = "select_delivery" /\ s2 = "enter_phone"
              /\ user_states'[a].delivery_method # "delivery"
        \/ s = "enter_address" /\ s2 = "enter_phone"
        \/ s = "enter_phone" /\ s2 = "confirm_order"

\* C10: for each account the step of the order conversation only advances
\* along select_size, select_quantity, select_delivery, enter_address (for
\* delivery only), enter_phone, confirm_order; apart from the start of a new
\* order no message and no tap moves it backwards or skips a step.
C10_StepOnlyAdvances == [][\A a \in Accounts : StepAdvances(a)]_vars

\* the orders stored by the step
NewOrders == {o \in orders' : ~\E p \in orders : p.id = o.id}
NewLines == {l \in order_items' : ~\E p \in order_items : p.id = l.id}

\* the Confirm tap of account a arrives at step confirm_order and stores one
\* order with one line carrying what the state of the account holds, and the
\* state of the account is gone
ConfirmedAtSummary(a) ==
    /\ HandleOrderConfirmation(a)
    /\ StepOf(user_states, a) = "confirm_order"
    /\ Cardinality(NewOrders) = 1
    /\ Cardinality(NewLines) = 1
    /\ \A o \in NewOrders, l \in NewLines :
          /\ l.order_id = o.id
          /\ l.item_id = user_states[a].item_id
          /\ l.size = user_states[a].size
          /\ l.quantity = user_states[a].quantity
          /\ l.price = user_states[a].price
    /\ a \notin DOMAIN user_states'

\* C11: the order flow stores an order only by a Confirm tap that arrives
\* while the conversation of the account is at step confirm_order; that tap
\* stores exactly one Order with exactly one OrderItem carrying the item,
\* size, quantity and unit price of the state, and clears the state.
C11_ConfirmPersists ==
    [][NewOrders # {} \/ NewLines # {} => \E a \in Accounts : ConfirmedAtSummary(a)]_vars

\* C12: every status change is one the admin keyboard offers for the current
\* status of the order: pending to confirmed or cancelled, confirmed to
\* shipped or cancelled; a shipped or cancelled order never changes status.
C12_OfferedTransitionsOnly ==
    [][\A o \in orders, o2 \in orders' :
          o2.id = o.id /\ o2.status # o.status =>
             o2.status \in create_order_actions_keyboard(o.status)]_vars

----------------------------------------------------------------------------
(* Properties of update_order_status *)

StatusSet == {"pending", "confirmed", "paid", "shipped", "cancelled"}

\* C13: update_order_status with a status outside pending, confirmed, paid,
\* shipped, cancelled fails and leaves the stored status as it was; with a
\* status inside the set it sets exactly that status on that order and
\* changes no other field and no other order.
C13_UpdateOrderStatus ==
    [][\A id \in 1..MaxOrders, s \in ServiceStatusInputs :
          UpdateOrderStatus(id, s) =>
             IF s \notin StatusSet
             THEN ~result'.ok /\ orders' = orders
             ELSE /\ result'.ok
                  /\ orders' = { IF o.id = id THEN [o EXCEPT !.status = s] ELSE o : o \in orders }
                  /\ order_items' = order_items]_vars

\* a status change has been stored and a call with an unknown status refused
C13_Witness ==
    /\ result.op = "update_order_status"
    /\ ~result.ok
    /\ \E o \in orders : o.id = result.order_id /\ o.status = "shipped"

----------------------------------------------------------------------------
(* Properties of stored orders *)

\* the order lines of an order
LinesOf(lines, order_id) == {l \in lines : l.order_id = order_id}

\* C14: once an order is created, its total, its discount and the size,
\* quantity and unit price of its order items never change, whatever happens
\* later: catalog price updates, item removals, promo code changes and
\* status transitions.
C14_OrderFrozen ==
    [][\A o \in orders :
          /\ \E o2 \in orders' :
                o2.id = o.id /\ o2.total = o.total /\ o2.discount = o.discount
          /\ \A l \in LinesOf(order_items, o.id) :
                \E l2 \in LinesOf(order_items', o.id) :
                   /\ l2.id = l.id
                   /\ l2.size = l.size
                   /\ l2.quantity = l.quantity
                   /\ l2.price = l.price
          /\ Cardinality(LinesOf(order_items', o.id)) = Cardinality(LinesOf(order_items, o.id))]_vars

\* an order placed with a promo code stands at another status while the
\* price of its item has changed in the catalog and its code is inactive
C14_Witness ==
    \E o \in orders, l \in order_items, i \in catalog, p \in promo_codes :
       /\ l.order_id = o.id
       /\ o.discount > 0
       /\ o.status = "confirmed"
       /\ i.id = l.item_id
       /\ i.price # l.price
       /\ p.code = o.promo_code
       /\ ~p.is_active

----------------------------------------------------------------------------
(* Properties of the validation of answers *)

\* the handler refuses the text: validate_quantity returns nothing,
\* validate_phone returns false
Refuses(handler, text) ==
    \/ handler = "process_quantity" /\ validate_quantity(text) = Null
    \/ handler = "process_phone" /\ ~validate_phone(text)

\* a message to a chat in a conversation whose armed handlers all refuse it
Refused(a, text) ==
    /\ TracedMessage(a, text)
    /\ a \in DOMAIN user_states
    /\ Armed(a) # <<>>
    /\ \A i \in 1..Len(Armed(a)) : Refuses(Armed(a)[i], text)

----------------------------------------------------------------------------
(* Properties of failing handlers *)

\* C16: no exception raised while a handler processes an update (a failed
\* send or edit, malformed callback data, a missing message text) escapes
\* the handler; every failure is caught at the handler boundary and the user
\* receives the generic error message.
C16_NoExceptionEscapes == ~result.raised

----------------------------------------------------------------------------
(* Properties of the users table *)

\* the row carries the username and names of the account's updates
CarriesProfile(u, a) ==
    /\ u.username = profiles[a].username
    /\ u.first_name = profiles[a].first_name
    /\ u.last_name = profiles[a].last_name

\* /start reaches handle_start, which calls get_or_create_user
StartHandled(a) ==
    /\ Armed(a) = <<>>
    /\ \E api_ok \in BOOLEAN : MessageUpdate(a, "/start", api_ok)

\* C17: after get_or_create_user handles a message exactly one User row
\* exists for the sender's account id, and its username, first name and last
\* name equal the message's values; after any sequence of /start and feedback
\* interactions there is never more than one User row per account id.
C17_OneUserPerAccount ==
    /\ [](\A a \in Accounts : Cardinality(UserByTgId(a)) <= 1)
    /\ [][\A a \in Accounts :
             StartHandled(a) =>
                /\ Cardinality({u \in users' : u.tg_id = a}) = 1
                /\ \A u \in users' : u.tg_id = a => CarriesProfile(u, a)]_vars

\* /start has just brought the row of an account that left feedback up to
\* its changed profile, next to the row of another account
C17_Witness ==
    /\ result.op = "message"
    /\ result.text = "/start"
    /\ result.handlers = <<>>
    /\ profiles[1] # DefaultProfile
    /\ \E u \in users, f \in feedback :
          u.tg_id = 1 /\ f.user_id = u.id /\ CarriesProfile(u, 1)
    /\ Cardinality(users) = 2

----------------------------------------------------------------------------
(* Properties of order numbers *)

\* C18: generate_order_number returns a different value at every call, so
\* any two orders created by create_order carry different order numbers and
\* both are persisted: no call of create_order is refused for its number.
C18_OrderNumbersDiffer ==
    /\ \A o1, o2 \in orders : o1.id # o2.id => o1.order_number # o2.order_number
    /\ ~(result.op = "create_order" /\ ~result.ok)

----------------------------------------------------------------------------
(* Properties of sizes *)

CatalogSizes == {"35", "36", "37", "38", "39", "40", "41", "42", "43", "44", "45", "46"}

\* C19: every catalog item, whichever path created it (the admin add-item
\* conversation, the Product Service, startup or standalone seeding), has a
\* non-empty size list all of whose labels belong to "35".."46".
C19_SizesWithinCatalogSizes ==
    \A i \in catalog :
       /\ i.sizes # <<>>
       /\ \A k \in 1..Len(i.sizes) : i.sizes[k] \in CatalogSizes

\* the tokens of the last call, trimmed
Trimmed == [i \in 1..Len(result.items) |-> Strip(result.items[i])]

\* C20: validate_sizes is all-or-nothing and order-preserving: it returns the
\* trimmed tokens in input order when the input is non-empty and every token
\* is one of the 12 catalog sizes, and returns absence as soon as one token
\* is outside the set or the input is empty.
C20_ValidateSizes ==
    result.op = "validate_sizes" =>
       IF \A i \in 1..Len(Trimmed) : Trimmed[i] \in CatalogSizes
       THEN result.value = Trimmed
       ELSE result.value = None

\* a list with a padded token came back trimmed and in the order given, not
\* sorted
C20_Witness ==
    /\ result.op = "validate_sizes"
    /\ result.items = <<"46 ", " 39", "38">>
    /\ result.value = <<"46", "39", "38">>

----------------------------------------------------------------------------
(* Properties of quantities *)

\* C21: validate_quantity returns n exactly for the inputs that parse as an
\* integer n with 1 <= n <= 99 and nothing for every other input (0, 100,
\* negatives, non-integers, text); so every order item persisted through the
\* order flow has a quantity between 1 and 99.
C21_QuantityWithinRange ==
    /\ result.op = "validate_quantity" =>
          LET n == IntOf(Strip(result.text))
          IN  IF n.ok /\ n.value \in 1..99
              THEN result.value = n.value
              ELSE result.value = Null
    /\ \A l \in order_items : l.quantity \in 1..99

\* 100 has just been refused while an order of two pairs stands stored
C21_Witness ==
    /\ result.op = "validate_quantity"
    /\ result.text = "100"
    /\ result.value = Null
    /\ \E l \in order_items : l.quantity = 2

----------------------------------------------------------------------------
(* Properties of the orders the conversation stores *)

\* C22: every order persisted through the order flow has an address exactly
\* when its delivery method is delivery: a delivery order carries the address
\* the user entered and a pickup order carries none, for any sequence of
\* messages and button taps.
C22_AddressIffDelivery ==
    \A o \in orders : (o.delivery_method = "delivery") <=> (o.address # None)

\* C25: every order persisted through the order flow carries a phone number
\* that was entered in the conversation and passed validate_phone (an
\* optional plus sign and 9 to 15 digits); no order is persisted with an
\* absent or unvalidated phone.
C25_PhoneValidated ==
    \A o \in orders : o.phone # None /\ validate_phone(o.phone)

\* the item of the account's conversation is no longer in the catalog
ItemGone(a) ==
    /\ a \in DOMAIN user_states
    /\ ItemById(user_states[a].item_id) = {}

\* C23: if an administrator removes the catalog item of an order
\* conversation in progress before the user taps Confirm, the Confirm
\* persists no order for the missing item.
C23_NoOrderForRemovedItem ==
    [][\A a \in Accounts :
          HandleOrderConfirmation(a) /\ ItemGone(a) =>
             orders' = orders /\ order_items' = order_items]_vars

----------------------------------------------------------------------------
(* Properties of the Cancel and Confirm taps *)

\* C24: a Cancel tap, at whatever step, removes the order-conversation
\* state of the account and stores no order; and the state of an account is
\* removed only by a Cancel tap of the account or by a Confirm tap of the
\* account that stored an order.
C24_StateRemovedByCancelOrConfirm ==
    [][\A a \in Customers :
          /\ (\E api_ok \in BOOLEAN : HandleOrderCancellationCall(a, api_ok)) =>
                /\ a \notin DOMAIN user_states'
                /\ orders' = orders
                /\ order_items' = order_items
          /\ (a \in DOMAIN user_states /\ a \notin DOMAIN user_states') =>
                \/ \E api_ok \in BOOLEAN : HandleOrderCancellationCall(a, api_ok)
                \/ /\ \E api_ok \in BOOLEAN : HandleOrderConfirmationCall(a, api_ok)
                   /\ orders' # orders]_vars

\* a Cancel tap has just removed the state of a conversation in which a
\* size was chosen, and nothing is stored
C24_Witness ==
    /\ result.op = "cancel_order"
    /\ result.ok
    /\ 1 \notin DOMAIN user_states
    /\ Armed(1) # <<>>
    /\ orders = {}

----------------------------------------------------------------------------
(* Properties of the admin conversations *)

\* C26: admin_states only ever holds entries for accounts of the admin
\* list, and no message of an account outside the list, in whatever chat
\* and whatever its text, adds an item or a promo code.
C26_OnlyAdminsInsert ==
    /\ [](DOMAIN admin_states \subseteq ADMIN_IDS)
    /\ [][\A chat_id \in Chats : \A a \in Senders(chat_id) \ ADMIN_IDS :
             \A text \in AdminTexts :
                AdminMessage(chat_id, a, text) =>
                   catalog' = catalog /\ promo_codes' = promo_codes]_vars

\* in the group chat the last handler of an administrator's add-item
\* conversation has just run on a message of the customer: nothing was added
C26_Witness ==
    /\ result.op = "message"
    /\ result.from_user \notin ADMIN_IDS
    /\ result.handlers = <<"process_item_image">>
    /\ DOMAIN admin_states # {}
    /\ catalog = SeededDb.items

----------------------------------------------------------------------------
(* Properties of the announcements to the administrators *)

Recipients(sends) == [i \in 1..Len(sends) |-> sends[i].to]

\* C27: when a new order or a feedback entry is announced, a send is
\* attempted to every administrator of Config.ADMIN_IDS, in the order of the
\* list, whichever of the sends fail, and the order or the feedback row
\* stored before stays stored.
C27_EveryAdminAttempted ==
    result.announced =>
        /\ Recipients(result.sends) = result.admins
        /\ result.op = "confirm_order" => \E o \in orders : o.id = result.order_id
        /\ result.op = "message" => \E f \in feedback : f.id = result.order_id

\* a new order was announced to two administrators: the send to the first
\* failed, the second was reached, and the order is stored
C27_Witness ==
    /\ result.op = "confirm_order"
    /\ result.announced
    /\ Len(result.sends) = 2
    /\ ~result.sends[1].ok
    /\ result.sends[2].ok
    /\ \E o \in orders : o.id = result.order_id

----------------------------------------------------------------------------
(* Properties of the dispatch of the admin menu *)

\* C28: an administrator's tap on the Export orders button of the admin
\* menu is given to the orders export, as /export_orders is, and never to
\* the catch-all handler.
C28_ExportButtonExports ==
    (/\ result.op = "message"
     /\ result.text = BTN_ADMIN_EXPORT
     /\ is_admin(result.from_user)) =>
        result.handlers = << "export_orders_wrapper" >>

----------------------------------------------------------------------------
(* Properties of create_item and update_item *)

\* whether every keyword a call was given passes its validation
SuppliedValid(k) ==
    /\ "sku" \in k.has => validate_sku(k.sku) /\ ~k.taken
    /\ "name" \in k.has => k.name # None /\ StrLen(Strip(k.name)) >= 2
    /\ "price" \in k.has => validate_price(k.price)
    /\ "sizes" \in k.has => k.sizes # <<>> /\ validate_sizes(k.sizes) # None
    /\ "category" \in k.has => k.category \in {"men", "women", "kids"}

\* C29: create_item and update_item return an item only when every input
\* they were given is valid: the SKU in format and not taken, the name of
\* two characters or more, the price within bounds, the size list valid and
\* the category one of men, women, kids; with any of them invalid they
\* return nothing.
C29_AbsenceOnInvalidInput ==
    (result.op \in {"create_item", "update_item"} /\ result.ok) =>
        SuppliedValid(result.value)

----------------------------------------------------------------------------
(* Properties of clear_old_data *)

\* the accounts a call with the given hours clears: those whose timestamps
\* are all purged and those whose expired ban is removed
ClearedAccounts(older_than_hours) ==
    {u \in DOMAIN requests : Keep(requests[u], rl_now - older_than_hours * HOUR) = <<>>}
       \cup {u \in DOMAIN bans : rl_now > bans[u]}

\* C30: clear_old_data returns the number of accounts it cleared, each
\* account whose timestamps were all purged or whose expired ban was removed
\* counted once, and no other account counted.
C30_ClearedCountedOnce ==
    [][\A h \in ClearHours :
          ClearOldData(h) => result'.value = Cardinality(ClearedAccounts(h))]_vars

----------------------------------------------------------------------------
(* Properties of the callback data *)

\* the handler function each action tag is meant for
HandlerOf(tag) ==
    CASE tag = "item"            -> "show_product_details"
      [] tag = "back_to_catalog" -> "handle_back_to_catalog"
      [] tag = "catalog_page"    -> "handle_catalog_pagination"
      [] tag = "order"           -> "start_order_flow"
      [] tag = "size"            -> "handle_size_selection"
      [] tag = "delivery"        -> "handle_delivery_selection"
      [] tag = "confirm_order"   -> "handle_order_confirmation"
      [] tag = "cancel_order"    -> "handle_order_cancellation"
      [] tag = "remove_item"     -> "handle_remove_item_selection"
      [] tag = "remove_item_yes" -> "confirm_remove_item"
      [] tag = "remove_item_no"  -> "cancel_remove_item"
      [] tag = "cancel_remove"   -> "cancel_remove_item"
      [] tag = "order_status"    -> "handle_order_status_update"

\* C31: the callback data of every button a keyboard builder produces is
\* accepted by the filter of exactly one registered callback handler, the one
\* meant for the button's action, and what that handler reads from the data by
\* splitting on ':' is exactly the arguments the builder formatted into it
\* (cancel_remove_item, which reads nothing from the data, excepted).
C31_CallbackRoundTrip ==
    result.op = "tap" =>
        LET b == result.buttons[result.tapped]
        IN  /\ result.accepted = <<HandlerOf(b.tag)>>
            /\ ~result.parsed.raised
            /\ \/ result.parsed.args = b.args
               \/ /\ HandlerOf(b.tag) = "cancel_remove_item"
                  /\ result.parsed.args = <<>>

\* C31 witness: a size button of item 12 was tapped and the handler read the
\* item id 12 and a size label of two characters from it.
C31_Witness ==
    /\ result.op = "tap"
    /\ result.buttons[result.tapped].tag = "size"
    /\ result.accepted = <<"handle_size_selection">>
    /\ Len(result.parsed.args) = 2
    /\ result.parsed.args[1] = 12
    /\ Len(result.parsed.args[2]) = 2

----------------------------------------------------------------------------
(* Properties of a Confirm tap that fails *)

\* C32: when the Confirm handler answers with the generic error, that
\* Confirm has persisted no Order row.
C32_ErrorMeansNoOrder ==
    (result.op = "confirm_order" /\ result.reply = "ERROR_GENERAL") =>
        result.order_id = Null

----------------------------------------------------------------------------
(* Properties of the armed next-step handlers *)

\* the step at which each next-step handler of the order conversation runs
StepFor(handler) ==
    CASE handler = "process_quantity" -> "select_quantity"
      [] handler = "process_address"  -> "enter_address"
      [] handler = "process_phone"    -> "enter_phone"
      [] OTHER                        -> None

\* C33: at most one next-step handler is armed per chat, and an armed
\* handler of the order conversation matches the step recorded for the
\* account: process_quantity only at select_quantity, process_address only at
\* enter_address, process_phone only at enter_phone.
C33_OneArmedMatchingStep ==
    \A c \in DOMAIN next_step :
       /\ Len(next_step[c]) <= 1
       /\ \A k \in 1..Len(next_step[c]) :
             StepFor(next_step[c][k]) # None =>
                /\ c \in DOMAIN user_states
                /\ user_states[c].step = StepFor(next_step[c][k])

----------------------------------------------------------------------------
(* Properties of the conversation states of several accounts *)

\* the conversation state an account has in a mapping, None without one
EntryOf(states, b) == IF b \in DOMAIN states THEN states[b] ELSE None

\* C34: handling an update from one account neither creates, changes nor
\* removes the user_states or admin_states entry of any other account.
C34_OthersStateUntouched ==
    [][\A a \in Members :
          ChatUpdate(a) =>
             \A b \in Members \ {a} :
                /\ EntryOf(user_states', b) = EntryOf(user_states, b)
                /\ EntryOf(admin_states', b) = EntryOf(admin_states, b)]_vars

\* C34 witness: the customer and the administrator are both in an order
\* conversation, at different steps, and the administrator is in an add-item
\* conversation too, all in the one chat.
C34_Witness ==
    /\ {1, 100} \subseteq DOMAIN user_states
    /\ user_states[1].step = "select_delivery"
    /\ user_states[100].step = "select_quantity"
    /\ 100 \in DOMAIN admin_states
    /\ admin_states[100].step = "sku"

----------------------------------------------------------------------------
(* Properties of the usage count *)

\* C35: a promo code that has a usage limit never has a usage count above it.
C35_UsageWithinLimit ==
    \A p \in promo_codes :
       (p.usage_limit # Null /\ Truthy(p.usage_limit)) => p.usage_count <= p.usage_limit

----------------------------------------------------------------------------
(* Properties of the amounts of an order *)

\* C36: every order create_order persists has a discount between 0 and the
\* subtotal and a total that is at least the delivery cost, which is not
\* negative: no order has a negative total.
C36_AmountsInRange ==
    /\ (result.op = "create_order" /\ result.ok) =>
          /\ 0 <= result.totals.discount
          /\ result.totals.discount <= result.totals.subtotal
          /\ 0 <= result.totals.delivery
          /\ result.totals.delivery <= result.totals.total
    /\ \A o \in orders : 0 <= o.discount /\ 0 <= o.total

\* C36 witness: an order was persisted with a code of 100 percent, so that its
\* discount is the whole subtotal and its total the delivery cost.
C36_Witness ==
    /\ result.op = "create_order"
    /\ result.ok
    /\ result.totals.subtotal > 0
    /\ result.totals.discount = result.totals.subtotal
    /\ result.totals.delivery = DELIVERY_PRICE
    /\ result.totals.total = DELIVERY_PRICE
    /\ \E o \in orders : o.id = result.order_id /\ o.total = DELIVERY_PRICE

----------------------------------------------------------------------------
(* Properties of an update that is refused *)

\* C37: when update_item returns nothing for an item that exists, none of
\* the fields of the item has been modified, those supplied in the same call
\* and checked before the refused one included.
C37_RefusedUpdateKeepsItem ==
    (result.op = "update_item" /\ ~result.ok) => result.session \subseteq catalog

----------------------------------------------------------------------------
(* Properties of the unique columns *)

\* C38: no two catalog items ever share a SKU and no two promo codes ever
\* share a code, whatever the interleaving of the administrators' add-item
\* and add-promo conversations, the calls of the services and seeding.
C38_UniqueSkuAndCode == UniqueSku(catalog) /\ UniqueCode(promo_codes)

\* C38 witness: an administrator entered a SKU while it was free, another
\* writer stored it since, and the last message of the conversation was
\* refused: the state is kept and the catalog holds the SKU once
C38_Witness ==
    /\ result.op = "message"
    /\ result.handlers = <<"process_item_image">>
    /\ result.reply = "ERROR_GENERAL"
    /\ result.from_user \in DOMAIN admin_states
    /\ \E i \in catalog : i.sku = admin_states[result.from_user].sku
    /\ \E b \in DOMAIN admin_states \ {result.from_user} : admin_states[b].step = "discount"

----------------------------------------------------------------------------
(* Properties of a ban *)

\* C39: with the default parameters a ban ends.  A request of an account
\* whose ban is running is rejected, leaves the end of the ban where it was
\* and is not recorded; the first request of the account 300 s or more after
\* the ban was imposed is allowed, recorded, and the ban is gone.
C39_BanIsFinite ==
    [][\A u \in rl_cfg.accounts : \A dt \in InnerDelays :
          (Wrapper(u, dt) /\ rl_cfg = DefaultLimiter /\ u \in DOMAIN bans) =>
             LET imposed == bans[u] - rl_cfg.ban_duration
             IN
             IF rl_now < imposed + 300
             THEN /\ ~rl_last'.allowed
                  /\ bans' = bans
                  /\ requests' = requests
             ELSE /\ rl_last'.allowed
                  /\ u \notin DOMAIN bans'
                  /\ requests'[u] = <<rl_now + dt>>]_vars

\* C39 witness: a request of an account that had gone past the limit found
\* a ban that had run its 300 s, and was let through
C39_Witness ==
    /\ rl_cfg = DefaultLimiter
    /\ rl_last.found # Null
    /\ rl_last.at >= rl_last.found
    /\ rl_last.allowed
    /\ rl_last.user \notin DOMAIN bans
    /\ rl_log[rl_last.user].hits >= 22

====
